---------------------------- MODULE Spec2Model ----------------------------
(***************************************************************************)
(* sf-filecache: a filesystem-backed cache.  A bucket file is a fixed-size *)
(* header ('BUCK' + the end of life as a little-endian double + filler)    *)
(* followed by the payload.  The model follows the promise-based service   *)
(* (initFileCache: get, getStream, set, setStream, setEOL) step by step:   *)
(* one action per synchronous run of code between two asynchronous         *)
(* callbacks.  The filesystem, the clock and the lock service are the      *)
(* environment.                                                            *)
(***************************************************************************)
EXTENDS Integers, Sequences, FiniteSets, TLC

(***************************************************************************)
(* Bounds of the model.                                                    *)
(***************************************************************************)
\* the clock runs from 1 to MaxTime
MaxTime == 2
\* the end-of-life values a caller passes: 0..MaxEol
MaxEol == 2

\* the concurrent callers
Procs == {"p1", "p2"}

\* the payloads a caller stores: the empty one, and <<3, 7>>, which streams
\* as one chunk or two
Payloads == {<< >>, <<3, 7>>}

\* keys as sequences of characters
KeyAB == <<"a", "b">>

\* the longest of the keys that _keyToPath is tried on, the key of the test
\* apart
MaxKeyLen == 3

(***************************************************************************)
(* Program constants.                                                      *)
(***************************************************************************)
\* 'BUCK'
HEADER_FLAG == <<66, 85, 67, 75>>
\* HEADER_FLAG.length + 16
HEADER_SIZE == Len(HEADER_FLAG) + 16
\* 'x'.charCodeAt(0)
FILLER == 120
\* 0xffffffffffffffff, the "never" end of life of setStream; any value above
\* every clock value behaves the same in the one comparison that reads it
NEVER == 1000000

(***************************************************************************)
(* Byte helpers.                                                           *)
(***************************************************************************)
RECURSIVE Pow2(_)
Pow2(n) == IF n = 0 THEN 1 ELSE 2 * Pow2(n - 1)

RECURSIVE Log2(_)
\* floor(log2 n) for n >= 1
Log2(n) == IF n < 2 THEN 0 ELSE 1 + Log2(n \div 2)

Rep(b, n) == [i \in 1..n |-> b]

\* a mutant of the slice: it starts one byte early
SliceOneEarly(buf, start) == SubSeq(buf, start, Len(buf))

\* Buffer.slice(start): the bytes from offset start (0-based) on
Slice(buf, start) == SubSeq(buf, start + 1, Len(buf))

\* the first n bytes
Take(buf, n) == SubSeq(buf, 1, IF n < Len(buf) THEN n ELSE Len(buf))

\* a positioned write: bytes land at offset pos (0-based); a gap between the
\* end of the file and pos reads as zeros
WriteAt(old, pos, bytes) ==
  LET padded == IF Len(old) < pos THEN old \o Rep(0, pos - Len(old)) ELSE old
  IN SubSeq(padded, 1, pos) \o bytes
       \o SubSeq(padded, pos + Len(bytes) + 1, Len(padded))

(***************************************************************************)
(* Buffer.writeDoubleLE / readDoubleLE on the non-negative integers below  *)
(* 2^13: sign 0, biased exponent e + 1023 in 11 bits, and the top 12 bits  *)
(* of the 52-bit fraction; the 40 low fraction bits (bytes 0..4) are zero. *)
(***************************************************************************)
writeDoubleLE(n) ==
  IF n = 0 THEN Rep(0, 8)
  ELSE LET e      == Log2(n)
           biased == e + 1023
           top12  == (n - Pow2(e)) * Pow2(12 - e)
       IN <<0, 0, 0, 0, 0,
            top12 % 256,
            (biased % 16) * 16 + (top12 \div 256),
            biased \div 16>>

\* a mutant of the read: the fraction bits are left out
readDoubleLEExponentOnly(b) ==
  LET biased == (b[8] % 128) * 16 + (b[7] \div 16)
      e      == biased - 1023
  IN IF biased = 0 \/ e < 0 THEN 0 ELSE Pow2(e)

\* The value read back, rounded down to an integer: every use compares it
\* with an integer clock, and x < t iff floor(x) < t.  A biased exponent of
\* 0 is zero or a subnormal; an exponent below 0 gives a value below 1.
readDoubleLE(b) ==
  LET biased == (b[8] % 128) * 16 + (b[7] \div 16)
      top12  == (b[7] % 16) * 256 + b[6]
      e      == biased - 1023
  IN IF biased = 0 \/ e < 0 THEN 0
     ELSE (Pow2(e) * (4096 + top12)) \div 4096

(***************************************************************************)
(* The header codec.                                                       *)
(***************************************************************************)
\* a mutant of the encoder: the reserved bytes are zeros
encodeHeaderZeroFilled(eol) ==
  HEADER_FLAG \o writeDoubleLE(eol) \o Rep(0, HEADER_SIZE - Len(HEADER_FLAG) - 8)

\* header.eol = header.eol || 0 leaves a number as it is (0 is falsy and
\* becomes 0); the buffer 'BUCKxxxxxxxxxxxxxxxx' gets the double at offset 4
encodeHeader(eol) ==
  WriteAt(HEADER_FLAG \o Rep(FILLER, 16), Len(HEADER_FLAG), writeDoubleLE(eol))

Ok(v)     == [code |-> "ok", eol |-> v]
Err(c, v) == [code |-> c, eol |-> v]

\* header = header || {}; header.eol = header.eol || 0: an omitted header or
\* eol (def FALSE) is the end of life 0
encodeHeaderArg(header) == encodeHeader(IF header.def THEN header.eol ELSE 0)

\* a mutant of the decoder: the tag is looked at before the size
decodeHeaderTagFirst(data) ==
  IF \E i \in 1..Len(HEADER_FLAG) : i > Len(data) \/ data[i] # HEADER_FLAG[i]
  THEN Err("E_BAD_HEADER_FMT", 0)
  ELSE IF HEADER_SIZE > Len(data) THEN Err("E_BAD_HEADER_SIZE", Len(data))
  ELSE Ok(readDoubleLE(SubSeq(data, Len(HEADER_FLAG) + 1, Len(HEADER_FLAG) + 8)))

decodeHeader(data) ==
  IF HEADER_SIZE > Len(data) THEN Err("E_BAD_HEADER_SIZE", Len(data))
  ELSE IF \E i \in 1..Len(HEADER_FLAG) : data[i] # HEADER_FLAG[i]
       THEN Err("E_BAD_HEADER_FMT", 0)
  ELSE Ok(readDoubleLE(SubSeq(data, Len(HEADER_FLAG) + 1, Len(HEADER_FLAG) + 8)))

(***************************************************************************)
(* Paths.  sanitize-filename drops the characters that are illegal in a    *)
(* file name; the path is the cache directory joined with                  *)
(* '__' + sanitize(key) + '.bucket'.                                       *)
(***************************************************************************)
Illegal == {"/", "?", "<", ">", "\\", ":", "*", "|", "\""}

RECURSIVE sanitize(_)
sanitize(key) ==
  IF key = << >> THEN << >>
  ELSE IF Head(key) \in Illegal THEN sanitize(Tail(key))
       ELSE <<Head(key)>> \o sanitize(Tail(key))

\* a mutant of the path: the key is used as it is
keyToPathRaw(key) == <<"__">> \o key \o <<".bucket">>

\* the path, as the name of the file in the cache directory
keyToPath(key) == <<"__">> \o sanitize(key) \o <<".bucket">>

\* a mutant of the temp path: one temp file for every key
TmpOfShared(path) == <<".tmp">>

\* dest + '.tmp'
TmpOf(path) == path \o <<".tmp">>

(***************************************************************************)
(* The state.                                                              *)
(***************************************************************************)
VARIABLES
  clock,      \* the injected time(): a number that never decreases
  fs,         \* path -> file: [ex |-> BOOLEAN, bytes |-> sequence of bytes]
  held,       \* lock service: key -> some caller was granted the key
  waitQ,      \* lock service: key -> the callers waiting in lock.take, in order
  pc,         \* caller -> the callback it is waiting for ("idle": returned)
  call,       \* caller -> the call it runs and its arguments
  fd,         \* caller -> where the file it holds open now lives
  buf,        \* caller -> what its read returned (readFile's err, data)
  src,        \* caller -> the chunks its source stream has still to deliver
  res,        \* caller -> how its call settled
  did,        \* caller -> the operation that res settled (history)
  events,     \* caller -> the lock calls of its call, in order (history);
              \* in the callback style, the results its callback was called with
  expect,     \* reader -> the undisturbed set its read came after (history)
  lastRename, \* path -> the call whose rename published what is there (history)
  quiet       \* path -> a set resolved and no writer ran since (history)

vars == <<clock, fs, held, waitQ, pc, call, fd, buf, src, res, did, events,
          expect, lastRename, quiet>>

\* the keys of the model: two that sanitize to the same name, one apart
KeySlash == <<"a", "/", "b">>
KeyC     == <<"c">>
AllKeys  == {KeyAB, KeySlash, KeyC}
AllPaths == {keyToPath(k) : k \in AllKeys} \cup {TmpOf(keyToPath(k)) : k \in AllKeys}
BucketPaths == {keyToPath(k) : k \in AllKeys}

Absent     == [ex |-> FALSE, bytes |-> << >>]
File(b)    == [ex |-> TRUE, bytes |-> b]

NoExpect   == [some |-> FALSE, data |-> << >>, eol |-> 0]
Wrote(d, e) == [some |-> TRUE, data |-> d, eol |-> e]
\* a call: its arguments, and the bucket it found when it got the lock
\* (history)
Call(o, k, d, e) == [op |-> o, key |-> k, data |-> d, eol |-> e, old |-> NoExpect]
NoCall     == Call("none", << >>, << >>, 0)
\* a settlement: resolved with data, or rejected with an error code and the
\* error's parameter
NoRes      == [code |-> "none", data |-> << >>, n |-> 0]
Pending    == [code |-> "pending", data |-> << >>, n |-> 0]
Resolved(d)   == [code |-> "ok", data |-> d, n |-> 0]
Rejected(c, n) == [code |-> c, data |-> << >>, n |-> n]
\* what readFile hands to its callback: err ("" for null) and data
NoRead     == [err |-> "", bytes |-> << >>]

PathOf(p) == keyToPath(call[p].key)

Init ==
  /\ clock = 1
  /\ fs = [f \in AllPaths |-> Absent]
  /\ held = [k \in AllKeys |-> FALSE]
  /\ waitQ = [k \in AllKeys |-> << >>]
  /\ pc = [p \in Procs |-> "idle"]
  /\ call = [p \in Procs |-> NoCall]
  /\ fd = [p \in Procs |-> "none"]
  /\ buf = [p \in Procs |-> NoRead]
  /\ src = [p \in Procs |-> << >>]
  /\ res = [p \in Procs |-> NoRes]
  /\ did = [p \in Procs |-> "none"]
  /\ events = [p \in Procs |-> << >>]
  /\ expect = [p \in Procs |-> NoExpect]
  /\ lastRename = [f \in BucketPaths |-> NoExpect]
  /\ quiet = [f \in BucketPaths |-> FALSE]

(***************************************************************************)
(* The clock.                                                              *)
(***************************************************************************)
Tick ==
  /\ clock < MaxTime
  /\ clock' = clock + 1
  /\ UNCHANGED <<fs, held, waitQ, pc, call, fd, buf, src, res, did, events,
                 expect, lastRename, quiet>>

(***************************************************************************)
(* The lock service: it grants a key to one caller at a time, in the order *)
(* of the takes.  release(key) names no caller: it frees the key whoever   *)
(* holds it, and does nothing on a free key.                               *)
(***************************************************************************)
LockTake(q, k, p) == [q EXCEPT ![k] = Append(@, p)]

\* a mutant of the grant: a key that is held is granted again
LockFreeNoHolder(k, p) == waitQ[k] # << >> /\ Head(waitQ[k]) = p

LockFree(k, p) == ~held[k] /\ waitQ[k] # << >> /\ Head(waitQ[k]) = p

LockRelease(h, k) == [h EXCEPT ![k] = FALSE]

(***************************************************************************)
(* The filesystem: what rename and unlink do to the callers that hold the  *)
(* file open.  An open file follows its inode: renamed with it, or left    *)
(* without a name ("orphan") once unlinked or replaced.                    *)
(***************************************************************************)
FdAfterUnlink(path) ==
  [q \in Procs |-> IF PathOf(q) = path /\ fd[q] = "dest" THEN "orphan" ELSE fd[q]]

FdAfterRename(path) ==
  [q \in Procs |->
     IF PathOf(q) # path THEN fd[q]
     ELSE IF fd[q] = "dest" THEN "orphan"
     ELSE IF fd[q] = "tmp" THEN "dest"
     ELSE fd[q]]

\* fs.write(fd, bytes, ..., pos): the bytes land in the file the descriptor
\* names, wherever it lives now; a file without a name is seen by nobody
WriteFd(p, pos, bytes) ==
  LET path == IF fd[p] = "tmp" THEN TmpOf(PathOf(p)) ELSE PathOf(p)
  IN IF fd[p] \in {"tmp", "dest"}
     THEN [fs EXCEPT ![path] = File(WriteAt(@.bytes, pos, bytes))]
     ELSE fs

\* the bucket a writer finds at a path: the call whose rename published it
Found(path) == IF fs[path].ex THEN lastRename[path] ELSE NoExpect

\* the set, setStream and setEOL calls past their pre-check
Writers == {"set", "setStream", "setEOL"}
InFlight(q) == pc[q] # "idle" /\ call[q].op \in Writers
OthersInFlight(p, path) ==
  \E q \in Procs \ {p} : InFlight(q) /\ PathOf(q) = path

(***************************************************************************)
(* get(key): fs.readFile, then in its callback the header check, the clock *)
(* check and the slice.  The call itself does nothing before the read, so  *)
(* the call and the read are one step; the callback is the next.           *)
(***************************************************************************)
\* a mutant of the read: the call asks for the lock of the key first
GetReadTakesLock(p, k) ==
  /\ pc[p] = "idle"
  /\ waitQ' = LockTake(waitQ, k, p)
  /\ pc' = [pc EXCEPT ![p] = "take"]
  /\ call' = [call EXCEPT ![p] = Call("get", k, << >>, 0)]
  /\ res' = [res EXCEPT ![p] = Pending]
  /\ did' = [did EXCEPT ![p] = "get"]
  /\ events' = [events EXCEPT ![p] = <<"take">>]
  /\ UNCHANGED <<clock, fs, held, fd, buf, src, expect, lastRename, quiet>>

GetRead(p, k) ==
  /\ pc[p] = "idle"
  /\ \E fault \in BOOLEAN :
       LET f == fs[keyToPath(k)]
       IN /\ buf' = [buf EXCEPT ![p] =
                       IF fault THEN [err |-> "EIO", bytes |-> << >>]
                       ELSE IF ~f.ex THEN [err |-> "ENOENT", bytes |-> << >>]
                       ELSE [err |-> "", bytes |-> f.bytes]]
          /\ expect' = [expect EXCEPT ![p] =
                       IF quiet[keyToPath(k)] /\ ~fault
                       THEN lastRename[keyToPath(k)] ELSE NoExpect]
  /\ pc' = [pc EXCEPT ![p] = "readFile"]
  /\ call' = [call EXCEPT ![p] = Call("get", k, << >>, 0)]
  /\ res' = [res EXCEPT ![p] = Pending]
  /\ did' = [did EXCEPT ![p] = "get"]
  /\ events' = [events EXCEPT ![p] = << >>]
  /\ UNCHANGED <<clock, fs, held, waitQ, fd, src, lastRename, quiet>>

\* a mutant of the clock check: a bucket at its end of life is refused too
GetResultEolInclusive(b, now) ==
  IF b.err # "" THEN Rejected("E_NOENT", 0)
  ELSE LET bucketHeader == decodeHeader(b.bytes)
       IN IF bucketHeader.code # "ok"
          THEN Rejected(bucketHeader.code, bucketHeader.eol)
          ELSE IF bucketHeader.eol <= now
               THEN Rejected("E_END_OF_LIFE", bucketHeader.eol)
          ELSE Resolved(Slice(b.bytes, HEADER_SIZE))

\* a mutant of the callback: the header is decoded before err is looked at
GetResultDecodeFirst(b, now) ==
  LET bucketHeader == decodeHeader(b.bytes)
  IN IF bucketHeader.code # "ok"
     THEN Rejected(bucketHeader.code, bucketHeader.eol)
     ELSE IF b.err # "" THEN Rejected("E_NOENT", 0)
     ELSE IF bucketHeader.eol < now
          THEN Rejected("E_END_OF_LIFE", bucketHeader.eol)
     ELSE Resolved(Slice(b.bytes, HEADER_SIZE))

\* a mutant of the slice: only the tag is removed
GetResultStripsTag(b, now) ==
  IF b.err # "" THEN Rejected("E_NOENT", 0)
  ELSE LET bucketHeader == decodeHeader(b.bytes)
       IN IF bucketHeader.code # "ok"
          THEN Rejected(bucketHeader.code, bucketHeader.eol)
          ELSE IF bucketHeader.eol < now
               THEN Rejected("E_END_OF_LIFE", bucketHeader.eol)
          ELSE Resolved(Slice(b.bytes, Len(HEADER_FLAG)))

\* the callback of readFile: (err, data)
GetResult(b, now) ==
  IF b.err # "" THEN Rejected("E_NOENT", 0)
  ELSE LET bucketHeader == decodeHeader(b.bytes)
       IN IF bucketHeader.code # "ok"
          THEN Rejected(bucketHeader.code, bucketHeader.eol)
          ELSE IF bucketHeader.eol < now
               THEN Rejected("E_END_OF_LIFE", bucketHeader.eol)
          ELSE Resolved(Slice(b.bytes, HEADER_SIZE))

GetCb(p) ==
  /\ pc[p] = "readFile"
  /\ res' = [res EXCEPT ![p] = GetResult(buf[p], clock)]
  /\ call' = [call EXCEPT ![p] = NoCall]
  /\ pc' = [pc EXCEPT ![p] = "idle"]
  /\ buf' = [buf EXCEPT ![p] = NoRead]
  /\ UNCHANGED <<clock, fs, held, waitQ, fd, src, did, events, expect,
                 lastRename, quiet>>

(***************************************************************************)
(* getStream(key): fs.createReadStream piped into firstChunkStream, a      *)
(* transform that holds back the first HEADER_SIZE bytes, hands them to a  *)
(* callback and lets the rest through.  The read stream delivers the bytes *)
(* the file had when it was opened, cut into chunks; buf holds the error   *)
(* of the read stream, or the bytes the transform holds back; res.data of  *)
(* a resolved call is what the resolved stream has delivered so far.       *)
(***************************************************************************)
\* where the model cuts a file into two chunks: inside the header, at its
\* end, inside the payload
Cuts == {Len(HEADER_FLAG), HEADER_SIZE, HEADER_SIZE + 1}

\* the ways the read stream chunks the bytes of a file: at once, in two
\* chunks, or in three with the header over the first two
ReadChunkings(b) ==
  (IF b = << >> THEN {<< >>} ELSE {<<b>>})
  \cup {<<Take(b, k), Slice(b, k)>> : k \in {c \in Cuts : c < Len(b)}}
  \cup (IF Len(b) > HEADER_SIZE
        THEN {<<Take(b, Len(HEADER_FLAG)),
                SubSeq(b, Len(HEADER_FLAG) + 1, HEADER_SIZE - 1),
                Slice(b, HEADER_SIZE - 1)>>}
        ELSE {})

\* the synchronous start: the read stream is created and piped; the open
\* and the reads come later, and fail or deliver the file's bytes
GetStreamCall(p, k) ==
  /\ pc[p] = "idle"
  /\ \E fault \in BOOLEAN :
       LET f == fs[keyToPath(k)]
       IN /\ IF fault \/ ~f.ex
             THEN /\ buf' = [buf EXCEPT ![p] =
                       [err |-> IF fault THEN "EIO" ELSE "ENOENT", bytes |-> << >>]]
                  /\ src' = [src EXCEPT ![p] = << >>]
             ELSE /\ buf' = [buf EXCEPT ![p] = NoRead]
                  /\ \E c \in ReadChunkings(f.bytes) : src' = [src EXCEPT ![p] = c]
          /\ expect' = [expect EXCEPT ![p] =
                       IF quiet[keyToPath(k)] /\ ~fault
                       THEN lastRename[keyToPath(k)] ELSE NoExpect]
  /\ pc' = [pc EXCEPT ![p] = "window"]
  /\ call' = [call EXCEPT ![p] = Call("getStream", k, << >>, 0)]
  /\ res' = [res EXCEPT ![p] = Pending]
  /\ did' = [did EXCEPT ![p] = "getStream"]
  /\ events' = [events EXCEPT ![p] = << >>]
  /\ UNCHANGED <<clock, fs, held, waitQ, fd, lastRename, quiet>>

\* a read of the file fails after the open: the read stream will emit
\* 'error'.  pipe does not pass the error on, so a stream that was resolved
\* gets no more bytes and no end
GetStreamReadError(p) ==
  /\ call[p].op = "getStream" /\ pc[p] \in {"window", "flush", "flow"}
  /\ buf[p].err = "" /\ src[p] # << >>
  /\ src' = [src EXCEPT ![p] = << >>]
  /\ IF pc[p] = "window"
     THEN /\ buf' = [buf EXCEPT ![p] = [err |-> "EIO", bytes |-> << >>]]
          /\ UNCHANGED pc
     ELSE /\ buf' = [buf EXCEPT ![p] = NoRead]
          /\ pc' = [pc EXCEPT ![p] = "stalled"]
  /\ UNCHANGED <<clock, fs, held, waitQ, call, fd, res, did, events, expect,
                 lastRename, quiet>>

\* a mutant of the error handler: the error ends the stream, and the
\* transform hands what it holds to the header callback
GetStreamErrorAsEnd(p) ==
  /\ call[p].op = "getStream" /\ pc[p] = "window" /\ buf[p].err # ""
  /\ res' = [res EXCEPT ![p] = Rejected("E_BAD_HEADER_SIZE", 0)]
  /\ call' = [call EXCEPT ![p] = NoCall]
  /\ pc' = [pc EXCEPT ![p] = "idle"]
  /\ buf' = [buf EXCEPT ![p] = NoRead]
  /\ UNCHANGED <<clock, fs, held, waitQ, fd, src, did, events, expect,
                 lastRename, quiet>>

\* stream.on('error', ...) of the read stream, before the header callback
GetStreamError(p) ==
  /\ call[p].op = "getStream" /\ pc[p] = "window" /\ buf[p].err # ""
  /\ res' = [res EXCEPT ![p] = Rejected("E_NOENT", 0)]
  /\ call' = [call EXCEPT ![p] = NoCall]
  /\ pc' = [pc EXCEPT ![p] = "idle"]
  /\ buf' = [buf EXCEPT ![p] = NoRead]
  /\ UNCHANGED <<clock, fs, held, waitQ, fd, src, did, events, expect,
                 lastRename, quiet>>

\* a mutant of the header callback: a bucket at its end of life is refused
FirstChunkCbEolInclusive(chunk, now) ==
  LET bucketHeader == decodeHeader(chunk)
  IN IF bucketHeader.code # "ok"
     THEN Rejected(bucketHeader.code, bucketHeader.eol)
     ELSE IF bucketHeader.eol <= now
          THEN Rejected("E_END_OF_LIFE", bucketHeader.eol)
     ELSE Resolved(<< >>)

\* the callback of firstChunkStream: (err, chunk, enc, firstChunkCb) with
\* err null; it rejects, or resolves with the stream, which has delivered
\* nothing yet
FirstChunkCb(chunk, now) ==
  LET bucketHeader == decodeHeader(chunk)
  IN IF bucketHeader.code # "ok"
     THEN Rejected(bucketHeader.code, bucketHeader.eol)
     ELSE IF bucketHeader.eol < now
          THEN Rejected("E_END_OF_LIFE", bucketHeader.eol)
     ELSE Resolved(<< >>)

\* a mutant of the settlement: after a rejection the transform gets its
\* callback back all the same
GetStreamSettleKeepsFlowing(p, r, rest) ==
  /\ res' = [res EXCEPT ![p] = r]
  /\ pc' = [pc EXCEPT ![p] = "flush"]
  /\ buf' = [buf EXCEPT ![p] = [err |-> "", bytes |-> rest]]
  /\ UNCHANGED call

\* what the header callback leaves: a rejected call is over (the transform
\* never gets its callback back); a resolved one waits for setImmediate
\* with the rest of the chunk held back
GetStreamSettle(p, r, rest) ==
  /\ res' = [res EXCEPT ![p] = r]
  /\ IF r.code = "ok"
     THEN /\ pc' = [pc EXCEPT ![p] = "flush"]
          /\ buf' = [buf EXCEPT ![p] = [err |-> "", bytes |-> rest]]
          /\ UNCHANGED call
     ELSE /\ pc' = [pc EXCEPT ![p] = "idle"]
          /\ buf' = [buf EXCEPT ![p] = NoRead]
          /\ call' = [call EXCEPT ![p] = NoCall]

\* the transform gets a chunk before the header callback ran: it keeps it
\* when HEADER_SIZE bytes are not reached, else it cuts it at the end of the
\* header window and calls the header callback with the window
GetStreamChunk(p) ==
  /\ call[p].op = "getStream" /\ pc[p] = "window"
  /\ buf[p].err = "" /\ src[p] # << >>
  /\ LET chunk == Head(src[p])
         need  == HEADER_SIZE - Len(buf[p].bytes)
     IN IF Len(chunk) < need
        THEN /\ buf' = [buf EXCEPT ![p].bytes = @ \o chunk]
             /\ UNCHANGED <<pc, call, res>>
        ELSE GetStreamSettle(p, FirstChunkCb(buf[p].bytes \o Take(chunk, need), clock),
                             Slice(chunk, need))
  /\ src' = [src EXCEPT ![p] = IF pc'[p] = "idle" THEN << >> ELSE Tail(@)]
  /\ UNCHANGED <<clock, fs, held, waitQ, fd, did, events, expect,
                 lastRename, quiet>>

\* the read stream ends before the header callback ran: the transform
\* flushes, and calls the header callback with the bytes it holds
GetStreamShort(p) ==
  /\ call[p].op = "getStream" /\ pc[p] = "window"
  /\ buf[p].err = "" /\ src[p] = << >>
  /\ GetStreamSettle(p, FirstChunkCb(buf[p].bytes, clock), << >>)
  /\ UNCHANGED <<clock, fs, held, waitQ, fd, src, did, events, expect,
                 lastRename, quiet>>

\* a mutant of the flush: the rest of the chunk is dropped
GetStreamFlushDropsRest(p) ==
  /\ call[p].op = "getStream" /\ pc[p] = "flush"
  /\ pc' = [pc EXCEPT ![p] = "flow"]
  /\ buf' = [buf EXCEPT ![p] = NoRead]
  /\ UNCHANGED <<clock, fs, held, waitQ, call, fd, src, res, did, events,
                 expect, lastRename, quiet>>

\* setImmediate: firstChunkCb(null, Buffer.from('')) pushes the empty buffer
\* in place of the header window, then the transform pushes the rest of the
\* chunk
GetStreamFlush(p) ==
  /\ call[p].op = "getStream" /\ pc[p] = "flush"
  /\ res' = [res EXCEPT ![p].data = @ \o << >> \o buf[p].bytes]
  /\ pc' = [pc EXCEPT ![p] = "flow"]
  /\ buf' = [buf EXCEPT ![p] = NoRead]
  /\ UNCHANGED <<clock, fs, held, waitQ, call, fd, src, did, events, expect,
                 lastRename, quiet>>

\* the transform passes a later chunk through
GetStreamPass(p) ==
  /\ call[p].op = "getStream" /\ pc[p] = "flow" /\ src[p] # << >>
  /\ res' = [res EXCEPT ![p].data = @ \o Head(src[p])]
  /\ src' = [src EXCEPT ![p] = Tail(@)]
  /\ UNCHANGED <<clock, fs, held, waitQ, pc, call, fd, buf, did, events,
                 expect, lastRename, quiet>>

\* the read stream ends and so does the stream of the consumer
GetStreamEnd(p) ==
  /\ call[p].op = "getStream" /\ pc[p] = "flow" /\ src[p] = << >>
  /\ pc' = [pc EXCEPT ![p] = "idle"]
  /\ call' = [call EXCEPT ![p] = NoCall]
  /\ UNCHANGED <<clock, fs, held, waitQ, fd, buf, src, res, did, events,
                 expect, lastRename, quiet>>

(***************************************************************************)
(* What a writer does when its promise settles: the lock.release of its    *)
(* try or catch block, then the return or throw.  Both run in the          *)
(* microtasks of the callback that settled the promise.                    *)
(***************************************************************************)
Return(p, r) ==
  /\ res' = [res EXCEPT ![p] = r]
  /\ call' = [call EXCEPT ![p] = NoCall]
  /\ pc' = [pc EXCEPT ![p] = "idle"]

\* a mutant of the settlement: the lock is kept
SettleNoRelease(p, r) ==
  /\ UNCHANGED <<held, events>>
  /\ Return(p, r)

\* a mutant of the settlement: try and catch both release
SettleTwice(p, r) ==
  /\ held' = LockRelease(held, call[p].key)
  /\ events' = [events EXCEPT ![p] = @ \o <<"release", "release">>]
  /\ Return(p, r)

Settle(p, r) ==
  /\ held' = LockRelease(held, call[p].key)
  /\ events' = [events EXCEPT ![p] = Append(@, "release")]
  /\ Return(p, r)

(***************************************************************************)
(* set(key, data, eol)                                                     *)
(***************************************************************************)
\* a mutant of the pre-check: no end of life is refused
SetPrecheckNever(e, now) == FALSE

\* if (eol < time()) throw new YError('E_END_OF_LIFE', eol)
SetPrecheck(e, now) == e < now

\* the synchronous start: the header, the pre-check, lock.take
SetCall(p, k, d, e) ==
  /\ pc[p] = "idle"
  /\ expect' = [expect EXCEPT ![p] = NoExpect]
  /\ did' = [did EXCEPT ![p] = "set"]
  /\ IF SetPrecheck(e, clock)
     THEN /\ res' = [res EXCEPT ![p] = Rejected("E_END_OF_LIFE", e)]
          /\ events' = [events EXCEPT ![p] = << >>]
          /\ UNCHANGED <<pc, call, waitQ, quiet>>
     ELSE /\ call' = [call EXCEPT ![p] = Call("set", k, d, e)]
          /\ res' = [res EXCEPT ![p] = Pending]
          /\ events' = [events EXCEPT ![p] = <<"take">>]
          /\ waitQ' = LockTake(waitQ, k, p)
          /\ pc' = [pc EXCEPT ![p] = "take"]
          /\ quiet' = [quiet EXCEPT ![keyToPath(k)] = FALSE]
  /\ UNCHANGED <<clock, fs, held, fd, buf, src, lastRename>>

\* a mutant of the grant: the call does not wait for the lock
SetGrantedNoWait(p) ==
  /\ pc[p] = "take" /\ call[p].op = "set"
  /\ waitQ' = [waitQ EXCEPT ![call[p].key] = SelectSeq(@, LAMBDA q : q # p)]
  /\ held' = [held EXCEPT ![call[p].key] = TRUE]
  /\ pc' = [pc EXCEPT ![p] = "writeFile"]
  /\ call' = [call EXCEPT ![p].old = Found(PathOf(p))]
  /\ UNCHANGED <<clock, did, fs, fd, buf, src, res, events, expect,
                 lastRename, quiet>>

\* lock.take resolves and fs.writeFile is called; a writeFile that throws at
\* once rejects with E_ACCESS through the catch of the promise's executor
SetGranted(p) ==
  /\ pc[p] = "take" /\ call[p].op = "set"
  /\ LockFree(call[p].key, p)
  /\ waitQ' = [waitQ EXCEPT ![call[p].key] = Tail(@)]
  /\ \E throws \in BOOLEAN :
       IF throws
       THEN Settle(p, Rejected("E_ACCESS", 0))
       ELSE /\ held' = [held EXCEPT ![call[p].key] = TRUE]
            /\ pc' = [pc EXCEPT ![p] = "writeFile"]
            /\ call' = [call EXCEPT ![p].old = Found(PathOf(p))]
            /\ UNCHANGED <<res, events>>
  /\ UNCHANGED <<clock, did, fs, fd, buf, src, expect, lastRename, quiet>>

\* writeFile opens dest + '.tmp'.  The option that would make the open
\* exclusive is named flag; the call passes flags, which writeFile does not
\* read, so the open is the default 'w': create, or truncate what is there
SetOpen(p) ==
  /\ pc[p] = "writeFile"
  /\ \E fault \in BOOLEAN :
       IF fault
       THEN /\ Settle(p, Rejected("E_ACCESS", 0))
            /\ UNCHANGED <<fs, fd>>
       ELSE /\ fs' = [fs EXCEPT ![TmpOf(PathOf(p))] = File(<< >>)]
            /\ fd' = [fd EXCEPT ![p] = "tmp"]
            /\ pc' = [pc EXCEPT ![p] = "write"]
            /\ UNCHANGED <<held, res, call, events>>
  /\ UNCHANGED <<clock, did, waitQ, buf, src, expect, lastRename, quiet>>

\* a mutant of the write: a failed write goes on to unlink the bucket
SetWriteFailUnlinks(p) ==
  /\ pc[p] = "write"
  /\ fd' = [fd EXCEPT ![p] = "none"]
  /\ \E fault \in BOOLEAN :
       IF fault
       THEN /\ Settle(p, Rejected("E_ACCESS", 0))
            /\ fs' = [fs EXCEPT ![PathOf(p)] = Absent]
       ELSE /\ fs' = WriteFd(p, 0, encodeHeader(call[p].eol) \o call[p].data)
            /\ pc' = [pc EXCEPT ![p] = "unlink"]
            /\ UNCHANGED <<held, res, call, events>>
  /\ UNCHANGED <<clock, did, waitQ, buf, src, expect, lastRename, quiet>>

\* writeFile writes Buffer.concat([header, data]) and closes
SetWrite(p) ==
  /\ pc[p] = "write"
  /\ fd' = [fd EXCEPT ![p] = "none"]
  /\ \E fault \in BOOLEAN :
       IF fault
       THEN /\ Settle(p, Rejected("E_ACCESS", 0))
            /\ UNCHANGED fs
       ELSE /\ fs' = WriteFd(p, 0, encodeHeader(call[p].eol) \o call[p].data)
            /\ pc' = [pc EXCEPT ![p] = "unlink"]
            /\ UNCHANGED <<held, res, call, events>>
  /\ UNCHANGED <<clock, did, waitQ, buf, src, expect, lastRename, quiet>>

\* a mutant of the unlink: the bucket that is there stays
SetUnlinkSkips(p) ==
  /\ pc[p] = "unlink"
  /\ pc' = [pc EXCEPT ![p] = "rename"]
  /\ UNCHANGED <<clock, did, fs, fd, held, waitQ, call, buf, src, res, events,
                 expect, lastRename, quiet>>

\* fs.unlink(dest, ...): its error is not looked at
SetUnlink(p) ==
  /\ pc[p] = "unlink"
  /\ fs' = [fs EXCEPT ![PathOf(p)] = Absent]
  /\ fd' = FdAfterUnlink(PathOf(p))
  /\ pc' = [pc EXCEPT ![p] = "rename"]
  /\ UNCHANGED <<clock, did, held, waitQ, call, buf, src, res, events, expect,
                 lastRename, quiet>>

\* fs.rename(dest + '.tmp', dest, ...): its error rejects as it is
SetRename(p) ==
  /\ pc[p] = "rename"
  /\ \E fault \in BOOLEAN :
       IF fault \/ ~fs[TmpOf(PathOf(p))].ex
       THEN /\ Settle(p, Rejected(IF fault THEN "EIO" ELSE "ENOENT", 0))
            /\ UNCHANGED <<fs, fd, lastRename, quiet>>
       ELSE /\ fs' = [fs EXCEPT ![PathOf(p)] = fs[TmpOf(PathOf(p))],
                                ![TmpOf(PathOf(p))] = Absent]
            /\ fd' = FdAfterRename(PathOf(p))
            /\ Settle(p, Resolved(<< >>))
            /\ lastRename' = [lastRename EXCEPT ![PathOf(p)] =
                 Wrote(call[p].data, call[p].eol)]
            /\ quiet' = [quiet EXCEPT ![PathOf(p)] = ~OthersInFlight(p, PathOf(p))]
  /\ UNCHANGED <<clock, did, waitQ, buf, src, expect>>

(***************************************************************************)
(* setStream(key, stream, eol)                                             *)
(***************************************************************************)
RECURSIVE Concat(_)
\* the bytes of a sequence of chunks
Concat(chunks) ==
  IF chunks = << >> THEN << >> ELSE Head(chunks) \o Concat(Tail(chunks))

\* eol = eol || 0xffffffffffffffff, after the header was encoded
StreamEol(e) == IF e = 0 THEN NEVER ELSE e

\* the synchronous start: the header (from the eol as passed), the
\* defaulting of eol, the pre-check, lock.take
SetStreamCall(p, k, chunks, e) ==
  /\ pc[p] = "idle"
  /\ expect' = [expect EXCEPT ![p] = NoExpect]
  /\ did' = [did EXCEPT ![p] = "setStream"]
  /\ IF StreamEol(e) < clock
     THEN /\ res' = [res EXCEPT ![p] = Rejected("E_END_OF_LIFE", StreamEol(e))]
          /\ events' = [events EXCEPT ![p] = << >>]
          /\ UNCHANGED <<pc, call, waitQ, quiet, src>>
     ELSE /\ call' = [call EXCEPT ![p] = Call("setStream", k, Concat(chunks), e)]
          /\ src' = [src EXCEPT ![p] = chunks]
          /\ res' = [res EXCEPT ![p] = Pending]
          /\ events' = [events EXCEPT ![p] = <<"take">>]
          /\ waitQ' = LockTake(waitQ, k, p)
          /\ pc' = [pc EXCEPT ![p] = "take"]
          /\ quiet' = [quiet EXCEPT ![keyToPath(k)] = FALSE]
  /\ UNCHANGED <<clock, fs, held, fd, buf, lastRename>>

\* lock.take resolves: createWriteStream, the handlers, write(header), pipe
SetStreamGranted(p) ==
  /\ pc[p] = "take" /\ call[p].op = "setStream"
  /\ LockFree(call[p].key, p)
  /\ waitQ' = [waitQ EXCEPT ![call[p].key] = Tail(@)]
  /\ held' = [held EXCEPT ![call[p].key] = TRUE]
  /\ pc' = [pc EXCEPT ![p] = "createWriteStream"]
  /\ call' = [call EXCEPT ![p].old = Found(PathOf(p))]
  /\ UNCHANGED <<clock, did, fs, fd, buf, src, res, events, expect,
                 lastRename, quiet>>

\* the write stream opens dest + '.tmp' with flags 'wx': the open fails when
\* the file is there.  'error' rejects with E_ACCESS
SetStreamOpen(p) ==
  /\ pc[p] = "createWriteStream"
  /\ \E fault \in BOOLEAN :
       IF fault \/ fs[TmpOf(PathOf(p))].ex
       THEN /\ Settle(p, Rejected("E_ACCESS", 0))
            /\ src' = [src EXCEPT ![p] = << >>]
            /\ UNCHANGED <<fs, fd>>
       ELSE /\ fs' = [fs EXCEPT ![TmpOf(PathOf(p))] = File(<< >>)]
            /\ fd' = [fd EXCEPT ![p] = "tmp"]
            /\ pc' = [pc EXCEPT ![p] = "header"]
            /\ UNCHANGED <<held, res, call, events, src>>
  /\ UNCHANGED <<clock, did, waitQ, buf, expect, lastRename, quiet>>

\* writableStream.write(header): the first write of the stream
SetStreamHeader(p) ==
  /\ pc[p] = "header"
  /\ \E fault \in BOOLEAN :
       IF fault
       THEN /\ Settle(p, Rejected("E_ACCESS", 0))
            /\ src' = [src EXCEPT ![p] = << >>]
            /\ fd' = [fd EXCEPT ![p] = "none"]
            /\ UNCHANGED fs
       ELSE /\ fs' = WriteFd(p, 0, encodeHeader(call[p].eol))
            /\ pc' = [pc EXCEPT ![p] = "pipe"]
            /\ UNCHANGED <<held, res, call, events, src, fd>>
  /\ UNCHANGED <<clock, did, waitQ, buf, expect, lastRename, quiet>>

\* a mutant of the position: the header is not counted
StreamPosNoHeader(p) == Len(call[p].data) - Len(Concat(src[p]))

\* where the stream's descriptor stands: behind what it wrote so far
StreamPos(p) == HEADER_SIZE + Len(call[p].data) - Len(Concat(src[p]))

\* stream.pipe(writableStream): the next chunk is written
SetStreamWrite(p) ==
  /\ pc[p] = "pipe" /\ src[p] # << >>
  /\ \E fault \in BOOLEAN :
       IF fault
       THEN /\ Settle(p, Rejected("E_ACCESS", 0))
            /\ src' = [src EXCEPT ![p] = << >>]
            /\ fd' = [fd EXCEPT ![p] = "none"]
            /\ UNCHANGED fs
       ELSE /\ fs' = WriteFd(p, StreamPos(p), Head(src[p]))
            /\ src' = [src EXCEPT ![p] = Tail(@)]
            /\ UNCHANGED <<held, res, call, events, pc, fd>>
  /\ UNCHANGED <<clock, did, waitQ, buf, expect, lastRename, quiet>>

\* the source stream emits 'error': pipe stops feeding the write stream and
\* does not end it, so neither 'finish' nor 'error' of the write stream
\* comes and the promise stays pending
SetStreamSourceError(p) ==
  /\ pc[p] = "pipe" /\ src[p] # << >>
  /\ pc' = [pc EXCEPT ![p] = "stalled"]
  /\ src' = [src EXCEPT ![p] = << >>]
  /\ UNCHANGED <<clock, did, fs, held, waitQ, call, fd, buf, res, events,
                 expect, lastRename, quiet>>

\* 'finish': fs.rename(dest + '.tmp', dest, ...); its error rejects and the
\* catch block casts it to E_ACCESS
SetStreamFinish(p) ==
  /\ pc[p] = "pipe" /\ src[p] = << >>
  /\ \E fault \in BOOLEAN :
       IF fault \/ ~fs[TmpOf(PathOf(p))].ex
       THEN /\ Settle(p, Rejected("E_ACCESS", 0))
            /\ fd' = [fd EXCEPT ![p] = "none"]
            /\ UNCHANGED <<fs, lastRename, quiet>>
       ELSE /\ fs' = [fs EXCEPT ![PathOf(p)] = fs[TmpOf(PathOf(p))],
                                ![TmpOf(PathOf(p))] = Absent]
            /\ fd' = [FdAfterRename(PathOf(p)) EXCEPT ![p] = "none"]
            /\ Settle(p, Resolved(<< >>))
            /\ lastRename' = [lastRename EXCEPT ![PathOf(p)] =
                 Wrote(call[p].data, call[p].eol)]
            /\ quiet' = [quiet EXCEPT ![PathOf(p)] = ~OthersInFlight(p, PathOf(p))]
  /\ UNCHANGED <<clock, did, waitQ, buf, src, expect>>

(***************************************************************************)
(* setEOL(key, eol)                                                        *)
(***************************************************************************)
\* the byte counts fs.write reports in the model: the tag and all but the
\* last byte of the double (a short write), or the whole header
WriteCounts == {11, HEADER_SIZE}

\* the synchronous start.  A past end of life takes the lock and unlinks;
\* any other goes straight to fs.open, with no lock.take
SetEOLCall(p, k, e) ==
  /\ pc[p] = "idle"
  /\ expect' = [expect EXCEPT ![p] = NoExpect]
  /\ call' = [call EXCEPT ![p] = Call("setEOL", k, << >>, e)]
  /\ res' = [res EXCEPT ![p] = Pending]
  /\ did' = [did EXCEPT ![p] = "setEOL"]
  /\ quiet' = [quiet EXCEPT ![keyToPath(k)] = FALSE]
  /\ IF e < clock
     THEN /\ events' = [events EXCEPT ![p] = <<"take">>]
          /\ waitQ' = LockTake(waitQ, k, p)
          /\ pc' = [pc EXCEPT ![p] = "take"]
     ELSE /\ events' = [events EXCEPT ![p] = << >>]
          /\ pc' = [pc EXCEPT ![p] = "open"]
          /\ UNCHANGED waitQ
  /\ UNCHANGED <<clock, fs, held, fd, buf, src, lastRename>>

\* lock.take resolves: fs.unlink is called
SetEOLGranted(p) ==
  /\ pc[p] = "take" /\ call[p].op = "setEOL"
  /\ LockFree(call[p].key, p)
  /\ waitQ' = [waitQ EXCEPT ![call[p].key] = Tail(@)]
  /\ held' = [held EXCEPT ![call[p].key] = TRUE]
  /\ pc' = [pc EXCEPT ![p] = "unlinkEOL"]
  /\ UNCHANGED <<clock, did, fs, call, fd, buf, src, res, events, expect,
                 lastRename, quiet>>

\* a mutant of the unlink: it reports success and leaves the file
SetEOLUnlinkKeepsFile(p) ==
  /\ pc[p] = "unlinkEOL"
  /\ fs[PathOf(p)].ex
  /\ Return(p, Resolved(<< >>))
  /\ UNCHANGED <<clock, did, fs, fd, held, waitQ, buf, src, events, expect,
                 lastRename, quiet>>

\* the callback of fs.unlink: an error is released and thrown; a success
\* returns from inside the try block, where no lock.release is
SetEOLUnlink(p) ==
  /\ pc[p] = "unlinkEOL"
  /\ \E fault \in BOOLEAN :
       IF fault \/ ~fs[PathOf(p)].ex
       THEN /\ Settle(p, Rejected(IF fault THEN "EIO" ELSE "ENOENT", 0))
            /\ UNCHANGED <<fs, fd, lastRename>>
       ELSE /\ fs' = [fs EXCEPT ![PathOf(p)] = Absent]
            /\ fd' = FdAfterUnlink(PathOf(p))
            /\ lastRename' = [lastRename EXCEPT ![PathOf(p)] = NoExpect]
            /\ Return(p, Resolved(<< >>))
            /\ UNCHANGED <<held, events>>
  /\ UNCHANGED <<clock, did, waitQ, buf, src, expect, quiet>>

\* the callback of fs.open(path, 'r+'): an error is rejected as it is, and
\* the catch block releases the lock; else fs.write of the new header
SetEOLOpen(p) ==
  /\ pc[p] = "open"
  /\ \E fault \in BOOLEAN :
       IF fault \/ ~fs[PathOf(p)].ex
       THEN /\ Settle(p, Rejected(IF fault THEN "EIO" ELSE "ENOENT", 0))
            /\ UNCHANGED fd
       ELSE /\ fd' = [fd EXCEPT ![p] = "dest"]
            /\ pc' = [pc EXCEPT ![p] = "writeEOL"]
            /\ UNCHANGED <<held, res, call, events>>
  /\ UNCHANGED <<clock, did, fs, waitQ, buf, src, expect, lastRename, quiet>>

\* a mutant of the write: the header replaces the file
SetEOLWriteTruncates(p) ==
  /\ pc[p] = "writeEOL"
  /\ \/ /\ Settle(p, Rejected("EIO", 0))
        /\ fd' = [fd EXCEPT ![p] = "none"]
        /\ UNCHANGED fs
     \/ \E numBytesWritten \in WriteCounts :
          /\ fs' = [fs EXCEPT ![PathOf(p)] =
                     File(Take(encodeHeader(call[p].eol), numBytesWritten))]
          /\ res' = [res EXCEPT ![p].n = numBytesWritten]
          /\ pc' = [pc EXCEPT ![p] = "close"]
          /\ UNCHANGED <<held, call, events, fd>>
  /\ UNCHANGED <<clock, did, waitQ, buf, src, expect, lastRename, quiet>>

\* the callback of fs.write(fd, header, 0, HEADER_SIZE, 0): an error closes
\* and rejects; else numBytesWritten bytes of the header are in the file
SetEOLWrite(p) ==
  /\ pc[p] = "writeEOL"
  /\ \/ /\ Settle(p, Rejected("EIO", 0))
        /\ fd' = [fd EXCEPT ![p] = "none"]
        /\ UNCHANGED fs
     \/ \E numBytesWritten \in WriteCounts :
          /\ fs' = WriteFd(p, 0, Take(encodeHeader(call[p].eol), numBytesWritten))
          /\ res' = [res EXCEPT ![p].n = numBytesWritten]
          /\ pc' = [pc EXCEPT ![p] = "close"]
          /\ UNCHANGED <<held, call, events, fd>>
  /\ UNCHANGED <<clock, did, waitQ, buf, src, expect, lastRename, quiet>>

\* the fs.close calls the callback of fs.write has issued on the descriptor
\* of a call that waits for a close: after a short write the one of the
\* branch numBytesWritten !== HEADER_SIZE, which does not return, and the one
\* after it
CloseCalls(p) == IF res[p].n # HEADER_SIZE THEN 2 ELSE 1

\* After a full write one fs.close is pending: its callback rejects with its
\* error or resolves.  After a short write two fs.close of the same
\* descriptor are pending: the callback of the first rejects with
\* E_BAD_WRITE, that of the second rejects with its error or resolves, and
\* the one that comes first settles the promise.
SetEOLClose(p) ==
  /\ pc[p] = "close"
  /\ fd' = [fd EXCEPT ![p] = "none"]
  /\ \E r \in {Resolved(<< >>), Rejected("EBADF", 0)} \cup
              (IF res[p].n # HEADER_SIZE
               THEN {Rejected("E_BAD_WRITE", res[p].n)} ELSE {}) :
       Settle(p, r)
  /\ UNCHANGED <<clock, did, fs, waitQ, buf, src, expect, lastRename, quiet>>

(***************************************************************************)
(* The service with get and set alone, on one key.                         *)
(***************************************************************************)
EolVals == 0..MaxEol

NextSet ==
  \/ Tick
  \/ \E p \in Procs :
       \/ GetRead(p, KeyAB)
       \/ GetCb(p)
       \/ \E d \in Payloads, e \in EolVals : SetCall(p, KeyAB, d, e)
       \/ SetGranted(p)
       \/ SetOpen(p)
       \/ SetWrite(p)
       \/ SetUnlink(p)
       \/ SetRename(p)

SpecSet == Init /\ [][NextSet]_vars

(***************************************************************************)
(* The service with get and setStream alone, on one key.                   *)
(***************************************************************************)
\* what a source stream delivers: nothing, or <<3, 7>> in one chunk or two
Chunkings == {<< >>, <<<<3, 7>>>>, <<<<3>>, <<7>>>>}

\* the ends of life a stream is stored with: none (0), one that passes as the
\* clock runs, the latest one
StreamEols == {0, 1, MaxEol}

NextStream ==
  \/ Tick
  \/ \E p \in Procs :
       \/ GetRead(p, KeyAB)
       \/ GetCb(p)
       \/ \E c \in Chunkings, e \in StreamEols : SetStreamCall(p, KeyAB, c, e)
       \/ SetStreamGranted(p)
       \/ SetStreamOpen(p)
       \/ SetStreamHeader(p)
       \/ SetStreamWrite(p)
       \/ SetStreamSourceError(p)
       \/ SetStreamFinish(p)

SpecStream == Init /\ [][NextStream]_vars

(***************************************************************************)
(* The three writers on one key.  The pre-checks are all the writers read  *)
(* of the clock, so it stands still; the calls pass the ends of life 0     *)
(* (past) and MaxEol (to come).                                            *)
(***************************************************************************)
Next ==
  \E p \in Procs :
    \/ SetCall(p, KeyAB, <<1>>, MaxEol)
    \/ SetGranted(p)
    \/ SetOpen(p)
    \/ SetWrite(p)
    \/ SetUnlink(p)
    \/ SetRename(p)
    \/ \E e \in {0, MaxEol} : SetStreamCall(p, KeyAB, <<<<3>>, <<7>>>>, e)
    \/ SetStreamGranted(p)
    \/ SetStreamOpen(p)
    \/ SetStreamHeader(p)
    \/ SetStreamWrite(p)
    \/ SetStreamSourceError(p)
    \/ SetStreamFinish(p)
    \/ \E e \in {0, MaxEol} : SetEOLCall(p, KeyAB, e)
    \/ SetEOLGranted(p)
    \/ SetEOLUnlink(p)
    \/ SetEOLOpen(p)
    \/ SetEOLWrite(p)
    \/ SetEOLClose(p)

Spec == Init /\ [][Next]_vars

(***************************************************************************)
(* The two readers on one key, over every kind of file that can be at the  *)
(* bucket path: none, an empty one, one shorter than a header, a short one *)
(* with a wrong tag, a long one with a wrong tag, and the buckets.         *)
(***************************************************************************)
BadTag(b) == [b EXCEPT ![1] = 0]

FileStates ==
  {Absent, File(<< >>), File(<<1>>),
   File(Take(encodeHeader(MaxEol), HEADER_SIZE - 1)),
   File(BadTag(encodeHeader(MaxEol) \o <<3, 7>>))}
  \cup {File(encodeHeader(e) \o d) : e \in EolVals, d \in Payloads}

InitRead ==
  /\ clock = 1
  /\ \E f \in FileStates :
       fs = [path \in AllPaths |-> IF path = keyToPath(KeyAB) THEN f ELSE Absent]
  /\ held = [k \in AllKeys |-> FALSE]
  /\ waitQ = [k \in AllKeys |-> << >>]
  /\ pc = [p \in Procs |-> "idle"]
  /\ call = [p \in Procs |-> NoCall]
  /\ fd = [p \in Procs |-> "none"]
  /\ buf = [p \in Procs |-> NoRead]
  /\ src = [p \in Procs |-> << >>]
  /\ res = [p \in Procs |-> NoRes]
  /\ did = [p \in Procs |-> "none"]
  /\ events = [p \in Procs |-> << >>]
  /\ expect = [p \in Procs |-> NoExpect]
  /\ lastRename = [f \in BucketPaths |-> NoExpect]
  /\ quiet = [f \in BucketPaths |-> FALSE]

NextRead ==
  \/ Tick
  \/ \E p \in Procs :
       \/ GetRead(p, KeyAB)
       \/ GetCb(p)
       \/ GetStreamCall(p, KeyAB)
       \/ GetStreamReadError(p)
       \/ GetStreamError(p)
       \/ GetStreamChunk(p)
       \/ GetStreamShort(p)
       \/ GetStreamFlush(p)
       \/ GetStreamPass(p)
       \/ GetStreamEnd(p)

SpecRead == InitRead /\ [][NextRead]_vars

(***************************************************************************)
(* set, setEOL and the two readers on one key, the clock standing still:   *)
(* setEOL is passed the ends of life 0 (past) and MaxEol (to come).        *)
(***************************************************************************)
NextEOL ==
  \E p \in Procs :
    \/ SetCall(p, KeyAB, <<3, 7>>, MaxEol)
    \/ SetGranted(p)
    \/ SetOpen(p)
    \/ SetWrite(p)
    \/ SetUnlink(p)
    \/ SetRename(p)
    \/ \E e \in {0, MaxEol} : SetEOLCall(p, KeyAB, e)
    \/ SetEOLGranted(p)
    \/ SetEOLUnlink(p)
    \/ SetEOLOpen(p)
    \/ SetEOLWrite(p)
    \/ SetEOLClose(p)
    \/ GetRead(p, KeyAB)
    \/ GetCb(p)
    \/ GetStreamCall(p, KeyAB)
    \/ GetStreamReadError(p)
    \/ GetStreamError(p)
    \/ GetStreamChunk(p)
    \/ GetStreamShort(p)
    \/ GetStreamFlush(p)
    \/ GetStreamPass(p)
    \/ GetStreamEnd(p)

SpecEOL == Init /\ [][NextEOL]_vars

\* the callbacks of a get or getStream call
ReadCallback(p) ==
  \/ GetCb(p)
  \/ GetStreamReadError(p)
  \/ GetStreamError(p)
  \/ GetStreamChunk(p)
  \/ GetStreamShort(p)
  \/ GetStreamFlush(p)
  \/ GetStreamPass(p)
  \/ GetStreamEnd(p)

\* the grant of the lock and the callbacks of a set or setEOL call
WriteCallback(p) ==
  \/ SetGranted(p)
  \/ SetOpen(p)
  \/ SetWrite(p)
  \/ SetUnlink(p)
  \/ SetRename(p)
  \/ SetEOLGranted(p)
  \/ SetEOLUnlink(p)
  \/ SetEOLOpen(p)
  \/ SetEOLWrite(p)
  \/ SetEOLClose(p)

(***************************************************************************)
(* One reader and one writer on one key, over a bucket that is absent or   *)
(* cut short of its header, when the lock serves its queue and every       *)
(* operation of the file system and of the streams calls back: a callback  *)
(* that can run does run.                                                  *)
(***************************************************************************)
Reader == "p1"

Writer == "p2"

InitFair ==
  /\ InitRead
  /\ fs[keyToPath(KeyAB)] \in {Absent, File(Take(encodeHeader(MaxEol), HEADER_SIZE - 1))}

NextFair ==
  \/ GetRead(Reader, KeyAB)
  \/ GetStreamCall(Reader, KeyAB)
  \/ ReadCallback(Reader)
  \/ SetCall(Writer, KeyAB, <<3, 7>>, MaxEol)
  \/ \E e \in {0, MaxEol} : SetEOLCall(Writer, KeyAB, e)
  \/ WriteCallback(Writer)

SpecFair ==
  /\ InitFair /\ [][NextFair]_vars
  /\ WF_vars(ReadCallback(Reader)) /\ WF_vars(WriteCallback(Writer))

(***************************************************************************)
(* The header codec on its own: _encodeHeader and _decodeHeader are        *)
(* exported and called on any header and any buffer.  Each caller starts   *)
(* with some buffer in hand; it encodes a header in front of a payload, or *)
(* decodes the buffer it has.                                              *)
(***************************************************************************)
\* the ends of life encoded: the small ones, that of the tests, large ones
CodecEols == EolVals \cup {12, 1000, 8191}

\* the headers passed to _encodeHeader: an end of life, or none
HeaderArgs == {[def |-> TRUE, eol |-> e] : e \in CodecEols}
              \cup {[def |-> FALSE, eol |-> 0]}

\* the buffers passed to _decodeHeader without having been encoded: every
\* beginning of a bucket, and of a bucket with a wrong first or last byte
\* of the tag
CodecBufs ==
  LET good == encodeHeader(12) \o <<3, 7>>
  IN {Take(x, n) : x \in {good, BadTag(good), [good EXCEPT ![Len(HEADER_FLAG)] = 0]},
                   n \in 0..Len(good)}

InitCodec ==
  /\ clock = 1
  /\ fs = [f \in AllPaths |-> Absent]
  /\ held = [k \in AllKeys |-> FALSE]
  /\ waitQ = [k \in AllKeys |-> << >>]
  /\ pc = [p \in Procs |-> "idle"]
  /\ call = [p \in Procs |-> NoCall]
  /\ fd = [p \in Procs |-> "none"]
  /\ buf \in [Procs -> {[err |-> "", bytes |-> b] : b \in CodecBufs}]
  /\ src = [p \in Procs |-> << >>]
  /\ res = [p \in Procs |-> NoRes]
  /\ did = [p \in Procs |-> "none"]
  /\ events = [p \in Procs |-> << >>]
  /\ expect = [p \in Procs |-> NoExpect]
  /\ lastRename = [f \in BucketPaths |-> NoExpect]
  /\ quiet = [f \in BucketPaths |-> FALSE]

\* Buffer.concat([_encodeHeader(header), data])
Encode(p, header, d) ==
  /\ buf' = [buf EXCEPT ![p] = [err |-> "", bytes |-> encodeHeaderArg(header) \o d]]
  /\ call' = [call EXCEPT ![p] =
                Call(IF header.def THEN "encode" ELSE "encodeDefault",
                     << >>, d, header.eol)]
  /\ did' = [did EXCEPT ![p] = "encode"]
  /\ res' = [res EXCEPT ![p] = NoRes]
  /\ UNCHANGED <<clock, fs, held, waitQ, pc, fd, src, events, expect,
                 lastRename, quiet>>

\* _decodeHeader(data): the header, or the error thrown
Decode(p) ==
  /\ did[p] # "decode"
  /\ LET bucketHeader == decodeHeader(buf[p].bytes)
     IN res' = [res EXCEPT ![p] =
                  [code |-> bucketHeader.code, data |-> << >>, n |-> bucketHeader.eol]]
  /\ did' = [did EXCEPT ![p] = "decode"]
  /\ UNCHANGED <<clock, fs, held, waitQ, pc, call, fd, buf, src, events,
                 expect, lastRename, quiet>>

NextCodec ==
  \E p \in Procs :
    \/ \E header \in HeaderArgs, d \in Payloads : Encode(p, header, d)
    \/ Decode(p)

SpecCodec == InitCodec /\ [][NextCodec]_vars

(***************************************************************************)
(* set and setStream on two keys that sanitize to one path, 'ab' and 'a/b'.*)
(***************************************************************************)
SamePathKeys == {KeyAB, KeySlash}

NextCollide ==
  \E p \in Procs :
    \/ \E k \in SamePathKeys : SetCall(p, k, <<1>>, MaxEol)
    \/ SetGranted(p)
    \/ SetOpen(p)
    \/ SetWrite(p)
    \/ SetUnlink(p)
    \/ SetRename(p)
    \/ \E k \in SamePathKeys : SetStreamCall(p, k, <<<<3, 7>>>>, MaxEol)
    \/ SetStreamGranted(p)
    \/ SetStreamOpen(p)
    \/ SetStreamHeader(p)
    \/ SetStreamWrite(p)
    \/ SetStreamSourceError(p)
    \/ SetStreamFinish(p)

SpecCollide == Init /\ [][NextCollide]_vars

(***************************************************************************)
(* setEOL and get on one key that has a bucket, the setEOL calls made one  *)
(* after the other: a call is made when no other is in flight.             *)
(***************************************************************************)
InitExtend ==
  /\ clock = 1
  /\ \E e \in EolVals, d \in Payloads :
       /\ fs = [path \in AllPaths |->
                  IF path = keyToPath(KeyAB) THEN File(encodeHeader(e) \o d)
                  ELSE Absent]
       /\ lastRename = [path \in BucketPaths |->
                          IF path = keyToPath(KeyAB) THEN Wrote(d, e)
                          ELSE NoExpect]
  /\ held = [k \in AllKeys |-> FALSE]
  /\ waitQ = [k \in AllKeys |-> << >>]
  /\ pc = [p \in Procs |-> "idle"]
  /\ call = [p \in Procs |-> NoCall]
  /\ fd = [p \in Procs |-> "none"]
  /\ buf = [p \in Procs |-> NoRead]
  /\ src = [p \in Procs |-> << >>]
  /\ res = [p \in Procs |-> NoRes]
  /\ did = [p \in Procs |-> "none"]
  /\ events = [p \in Procs |-> << >>]
  /\ expect = [p \in Procs |-> NoExpect]
  /\ quiet = [f \in BucketPaths |-> FALSE]

NextExtend ==
  \/ Tick
  \/ \E p \in Procs :
       \/ GetRead(p, KeyAB)
       \/ GetCb(p)
       \/ \E e \in EolVals :
            (~\E q \in Procs : InFlight(q)) /\ SetEOLCall(p, KeyAB, e)
       \/ SetEOLGranted(p)
       \/ SetEOLUnlink(p)
       \/ SetEOLOpen(p)
       \/ SetEOLWrite(p)
       \/ SetEOLClose(p)

SpecExtend == InitExtend /\ [][NextExtend]_vars

(***************************************************************************)
(* The writers and get on two keys of different paths, one caller on each, *)
(* the clock standing still.                                               *)
(***************************************************************************)
\* each caller works on a key of its own
KeyOf(p) == IF p = "p1" THEN KeyAB ELSE KeyC

NextKeys ==
  \E p \in Procs :
    \/ GetRead(p, KeyOf(p))
    \/ GetCb(p)
    \/ SetCall(p, KeyOf(p), <<3, 7>>, MaxEol)
    \/ SetGranted(p)
    \/ SetOpen(p)
    \/ SetWrite(p)
    \/ SetUnlink(p)
    \/ SetRename(p)
    \/ SetStreamCall(p, KeyOf(p), <<<<3, 7>>>>, MaxEol)
    \/ SetStreamGranted(p)
    \/ SetStreamOpen(p)
    \/ SetStreamHeader(p)
    \/ SetStreamWrite(p)
    \/ SetStreamSourceError(p)
    \/ SetStreamFinish(p)
    \/ \E e \in {0, MaxEol} : SetEOLCall(p, KeyOf(p), e)
    \/ SetEOLGranted(p)
    \/ SetEOLUnlink(p)
    \/ SetEOLOpen(p)
    \/ SetEOLWrite(p)
    \/ SetEOLClose(p)

SpecKeys == Init /\ [][NextKeys]_vars

(***************************************************************************)
(* _keyToPath on its own: it is exported and called on any key.            *)
(***************************************************************************)
\* the characters of the keys: a letter, a path separator, another
\* character that is illegal in a file name
PathChars == {"a", "/", "?"}

RECURSIVE KeysOfLen(_)
KeysOfLen(n) ==
  IF n = 0 THEN {<< >>}
  ELSE {Append(k, c) : k \in KeysOfLen(n - 1), c \in PathChars}

\* '/plop/wadup/?kikoo=lol'
TestKey == <<"/", "p", "l", "o", "p", "/", "w", "a", "d", "u", "p", "/", "?",
             "k", "i", "k", "o", "o", "=", "l", "o", "l">>

PathKeys == UNION {KeysOfLen(n) : n \in 0..MaxKeyLen} \cup {TestKey}

\* _keyToPath({ FS_CACHE_DIR }, key)
KeyToPath(p, key) ==
  /\ call' = [call EXCEPT ![p] = Call("keyToPath", key, << >>, 0)]
  /\ buf' = [buf EXCEPT ![p] = [err |-> "", bytes |-> keyToPath(key)]]
  /\ did' = [did EXCEPT ![p] = "keyToPath"]
  /\ UNCHANGED <<clock, fs, held, waitQ, pc, fd, src, res, events, expect,
                 lastRename, quiet>>

NextPath == \E p \in Procs, key \in PathKeys : KeyToPath(p, key)

SpecPath == Init /\ [][NextPath]_vars

(***************************************************************************)
(* Properties.                                                             *)
(***************************************************************************)
\* the bytes of the bucket a call publishes
Bucket(w) == encodeHeader(w.eol) \o w.data

\* where a call stands while an operation it issued on the files of its key
\* is under way
SetWritePcs    == {"writeFile", "write", "unlink", "rename"}
StreamWritePcs == {"createWriteStream", "header", "pipe"}
EOLWritePcs    == {"unlinkEOL", "writeEOL"}
InWritePhase(p) == pc[p] \in SetWritePcs \cup StreamWritePcs \cup EOLWritePcs

\* C1: a get whose read came after a set that resolved, with no other write
\* to the key since, and whose clock check runs at a time t <= eol, resolves
\* with exactly the bytes that were set; this for every payload, the empty
\* one included.
C1_RoundTrip ==
  [][\A p \in Procs :
       (/\ pc[p] = "readFile" /\ pc'[p] = "idle"
        /\ expect[p].some /\ clock <= expect[p].eol)
       => res'[p] = Resolved(expect[p].data)]_vars

C1_Witness ==
  \E p, q \in Procs :
    /\ pc[p] = "idle" /\ did[p] = "get" /\ expect[p].some
    /\ expect[p].data = <<3, 7>> /\ res[p] = Resolved(<<3, 7>>)
    /\ pc[q] = "idle" /\ did[q] = "get" /\ expect[q].some
    /\ expect[q].data = << >> /\ res[q] = Resolved(<< >>)

\* C2: a get that read a well-formed bucket, the header of an end of life e
\* followed by a payload d, rejects with E_END_OF_LIFE(e) exactly when e is
\* strictly below the clock, and otherwise resolves with d.
C2_EndOfLife ==
  [][\A p \in Procs : \A e \in EolVals : \A d \in Payloads :
       (/\ pc[p] = "readFile" /\ pc'[p] = "idle"
        /\ buf[p].err = "" /\ buf[p].bytes = encodeHeader(e) \o d)
       => res'[p] = IF e < clock THEN Rejected("E_END_OF_LIFE", e)
                    ELSE Resolved(d)]_vars

C2_Witness ==
  \E p, q \in Procs :
    /\ pc[p] = "idle" /\ did[p] = "get"
    /\ res[p] = Rejected("E_END_OF_LIFE", clock - 1)
    /\ pc[q] = "idle" /\ did[q] = "get" /\ res[q].code = "ok"
    /\ expect[q].some /\ expect[q].eol = clock

\* C3: no set call with an end of life below the clock gets past the
\* pre-check, and a set call that ends at once ends with E_END_OF_LIFE of an
\* end of life below the clock, having called neither lock.take nor
\* lock.release and having left every file as it was.
C3_SetPrecheck ==
  [][\A p \in Procs :
       pc[p] = "idle" =>
         /\ (pc'[p] = "take" /\ call'[p].op = "set") => call'[p].eol >= clock
         /\ (pc'[p] = "idle" /\ did'[p] = "set"
             /\ <<res'[p], did'[p], events'[p], expect'[p]>>
                  # <<res[p], did[p], events[p], expect[p]>>)
            => /\ res'[p].code = "E_END_OF_LIFE" /\ res'[p].n < clock
               /\ events'[p] = << >>
               /\ UNCHANGED <<fs, held, waitQ>>]_vars

C3_Witness ==
  \E p \in Procs :
    /\ pc[p] = "idle" /\ did[p] = "set" /\ events[p] = << >>
    /\ res[p] = Rejected("E_END_OF_LIFE", clock - 1)
    /\ fs[keyToPath(KeyAB)].ex

\* C4: every setStream call with an end of life below the clock, 0 included,
\* stops at the pre-check: no setStream call that reaches lock.take has an
\* end of life below the clock.
C4_StreamPrecheck ==
  [][\A p \in Procs :
       (pc[p] = "idle" /\ pc'[p] = "take" /\ call'[p].op = "setStream")
       => call'[p].eol >= clock]_vars

\* C5: a set call past the pre-check has called lock.take once and nothing
\* else of the lock while it runs, and lock.take once then lock.release once
\* when it has returned or thrown, whatever the exit.
C5_SetLockOnce ==
  \A p \in Procs :
    /\ (pc[p] # "idle" /\ call[p].op = "set") => events[p] = <<"take">>
    /\ (pc[p] = "idle" /\ did[p] = "set" /\ res[p].code # "E_END_OF_LIFE")
       => events[p] = <<"take", "release">>

C5_Witness ==
  \E p, q \in Procs :
    /\ pc[p] = "idle" /\ did[p] = "set" /\ res[p].code = "ok"
    /\ events[p] = <<"take", "release">>
    /\ pc[q] = "idle" /\ did[q] = "set" /\ res[q].code = "EIO"
    /\ events[q] = <<"take", "release">>

\* C6: a setStream call past the pre-check has called lock.take once and
\* nothing else of the lock while it runs, and lock.take once then
\* lock.release once when it has settled: after 'finish' and a rename that
\* worked, after an 'error' of the write stream, after a rename that failed.
C6_StreamLockOnce ==
  \A p \in Procs :
    /\ (pc[p] # "idle" /\ call[p].op = "setStream") => events[p] = <<"take">>
    /\ (pc[p] = "idle" /\ did[p] = "setStream"
        /\ res[p].code # "E_END_OF_LIFE")
       => events[p] = <<"take", "release">>

C6_Witness ==
  \E p, q \in Procs :
    /\ pc[p] = "idle" /\ did[p] = "setStream" /\ res[p].code = "ok"
    /\ events[p] = <<"take", "release">>
    /\ pc[q] = "idle" /\ did[q] = "setStream" /\ res[q].code = "E_ACCESS"
    /\ events[q] = <<"take", "release">>

\* C7: of the set, setStream and setEOL calls on one key, at most one at a
\* time has an operation on the key's files under way.
C7_MutualExclusion ==
  \A p, q \in Procs :
    (p # q /\ InWritePhase(p) /\ InWritePhase(q)) => call[p].key # call[q].key

\* C8: two set calls on one key never have operations on its files under
\* way together, none of them fails for a temp file the other took away,
\* and a bucket that is there holds the header and the data of the call
\* whose rename came last.
C8_SerialSets ==
  /\ \A p, q \in Procs :
       (p # q /\ pc[p] \in SetWritePcs /\ pc[q] \in SetWritePcs)
       => call[p].key # call[q].key
  /\ \A p \in Procs :
       pc[p] \in SetWritePcs => held[call[p].key]
  /\ \A p \in Procs : did[p] = "set" => res[p].code # "ENOENT"
  /\ \A path \in BucketPaths :
       fs[path].ex => /\ lastRename[path].some
                      /\ fs[path].bytes = Bucket(lastRename[path])

C8_Witness ==
  \E p, q \in Procs :
    /\ pc[p] = "rename" /\ pc[q] = "take" /\ call[q].key = call[p].key
    /\ call[p].old.some /\ call[p].old.data # call[p].data
    /\ did[q] = "set"

\* C9: a get that reads while a set overwrites a bucket that is there and
\* has not expired does not fail with E_NOENT or a header error, and what it
\* resolves with is the old payload or the new one.
C9_ReadDuringOverwrite ==
  [][\A p, q \in Procs :
       (/\ pc[p] = "idle" /\ pc'[p] = "readFile"
        /\ pc[q] \in SetWritePcs /\ call[q].key = call'[p].key
        /\ call[q].old.some /\ call[q].old.eol >= clock
        /\ buf'[p].err # "EIO")
       => LET r == GetResult(buf'[p], clock)
          IN /\ r.code \notin {"E_NOENT", "E_BAD_HEADER_SIZE", "E_BAD_HEADER_FMT"}
             /\ r.code = "ok" => r.data \in {call[q].old.data, call[q].data}]_vars

\* C10: a file at a bucket path is a complete bucket: a header of
\* HEADER_SIZE bytes that decodes, followed by the whole payload of the call
\* whose rename published it.
C10_BucketComplete ==
  \A path \in BucketPaths :
    fs[path].ex => /\ lastRename[path].some
                   /\ decodeHeader(fs[path].bytes).code = "ok"
                   /\ Slice(fs[path].bytes, HEADER_SIZE) = lastRename[path].data

\* what fs.readFile hands to its callback for a file
ReadFile(f) ==
  IF f.ex THEN [err |-> "", bytes |-> f.bytes]
  ELSE [err |-> "ENOENT", bytes |-> << >>]

\* what fs.readFile hands to its callback for the file at a path
ReadOf(path) ==
  IF fs[path].ex THEN [err |-> "", bytes |-> fs[path].bytes]
  ELSE [err |-> "ENOENT", bytes |-> << >>]

\* s is the beginning of t
IsPrefix(s, t) == Len(s) <= Len(t) /\ s = SubSeq(t, 1, Len(s))

\* C11: the stream getStream resolved with has delivered, at every moment, a
\* beginning of the file's bytes from offset HEADER_SIZE on, and when it
\* ends exactly those bytes, however the read stream was chunked.
C11_StreamPayload ==
  [][\A p \in Procs :
       (call[p].op = "getStream" /\ res'[p].code = "ok") =>
         LET payload == Slice(fs[PathOf(p)].bytes, HEADER_SIZE)
         IN /\ IsPrefix(res'[p].data, payload)
            /\ (pc[p] = "flow" /\ pc'[p] = "idle") => res'[p].data = payload]_vars

C11_Witness ==
  \E p, q \in Procs :
    /\ pc[p] = "idle" /\ did[p] = "getStream" /\ res[p] = Resolved(<<3, 7>>)
    /\ pc[q] = "window" /\ call[q].op = "getStream"
    /\ Len(buf[q].bytes) = Len(HEADER_FLAG)

\* C12: on the same file and at the same clock value getStream ends as get
\* does: when its header callback or its error handler rejects, with the
\* error get rejects with; when it resolves, get resolves too; and the bytes
\* its stream has delivered at the end are those get resolved with at the
\* clock value of the header check.
C12_ReadTransports ==
  [][\A p \in Procs :
       (call[p].op = "getStream" /\ buf[p].err # "EIO") =>
         LET g == GetResult(ReadOf(PathOf(p)), clock)
         IN /\ (pc[p] = "window" /\ pc'[p] = "idle") => (g.code # "ok" /\ res'[p] = g)
            /\ (pc[p] = "window" /\ pc'[p] = "flush") => g.code = "ok"
            /\ (pc[p] = "flow" /\ pc'[p] = "idle")
               => \E t \in 1..clock : res'[p] = GetResult(ReadOf(PathOf(p)), t)]_vars

C12_Witness ==
  \E p, q \in Procs :
    /\ pc[p] = "idle" /\ did[p] = "get" /\ pc[q] = "idle" /\ did[q] = "getStream"
    /\ res[p] = res[q] /\ res[p].code = "E_END_OF_LIFE"

\* C17: a get whose read failed, the file being missing or unreadable,
\* rejects with E_NOENT, whatever the clock and whatever is at the path.
C17_GetNoEnt ==
  [][\A p \in Procs :
       (call[p].op = "get" /\ pc[p] = "readFile" /\ pc'[p] = "idle"
        /\ buf[p].err # "")
       => res'[p] = Rejected("E_NOENT", 0)]_vars

C17_Witness ==
  \E p, q \in Procs :
    /\ pc[p] = "idle" /\ did[p] = "get" /\ res[p] = Rejected("E_NOENT", 0)
    /\ pc[q] = "readFile" /\ buf[q].err = "ENOENT"

\* C18: when the read stream of getStream fails before the header callback
\* ran, no stream has been delivered, and the call ends rejected with
\* E_NOENT.
C18_StreamNoEnt ==
  [][\A p \in Procs :
       (call[p].op = "getStream" /\ pc[p] = "window" /\ buf[p].err # "")
       => /\ res[p] = Pending
          /\ res'[p] # res[p] => (pc'[p] = "idle" /\ res'[p] = Rejected("E_NOENT", 0))]_vars

C18_Witness ==
  \E p \in Procs :
    /\ pc[p] = "idle" /\ did[p] = "getStream" /\ res[p] = Rejected("E_NOENT", 0)
    /\ Len(fs[keyToPath(KeyAB)].bytes) > HEADER_SIZE

\* C14: decoding the buffer that _encodeHeader made for an end of life,
\* with or without payload bytes behind the header, gives that end of life
\* back.
C14_HeaderRoundTrip ==
  [][\A p \in Procs :
       (did[p] = "encode" /\ did'[p] = "decode")
       => res'[p] = [code |-> "ok", data |-> << >>, n |-> call[p].eol]]_vars

C14_Witness ==
  \E p, q \in Procs :
    /\ did[p] = "decode" /\ call[p].op = "encode" /\ call[p].eol = 8191
    /\ call[p].data = <<3, 7>> /\ res[p].code = "ok" /\ res[p].n = 8191
    /\ did[q] = "decode" /\ call[q].op = "encode" /\ call[q].eol = 0
    /\ call[q].data = << >> /\ res[q].code = "ok" /\ res[q].n = 0

\* C15: the buffer _encodeHeader returns is HEADER_SIZE bytes: 'BUCK', then
\* the 8 bytes of the end of life as a little-endian double (for 12:
\* 0 0 0 0 0 0 40 64), then 'x' to the end; a header left out is the end of
\* life 0.
C15_HeaderLayout ==
  \A p \in Procs :
    did[p] = "encode" =>
      LET b   == buf[p].bytes
          eol == IF call[p].op = "encodeDefault" THEN 0 ELSE call[p].eol
      IN /\ Len(b) = HEADER_SIZE + Len(call[p].data)
         /\ HEADER_SIZE = 20
         /\ SubSeq(b, 1, 4) = <<66, 85, 67, 75>>
         /\ SubSeq(b, 5, 12) = writeDoubleLE(eol)
         /\ readDoubleLE(SubSeq(b, 5, 12)) = eol
         /\ eol = 12 => SubSeq(b, 5, 12) = <<0, 0, 0, 0, 0, 0, 40, 64>>
         /\ \A i \in 13..HEADER_SIZE : b[i] = 120

C15_Witness ==
  \E p, q \in Procs :
    /\ did[p] = "encode" /\ call[p].op = "encode" /\ call[p].eol = 12
    /\ did[q] = "encode" /\ call[q].op = "encodeDefault"

\* C16: _decodeHeader throws E_BAD_HEADER_SIZE on every buffer shorter than
\* HEADER_SIZE, whatever its first bytes, E_BAD_HEADER_FMT on every buffer of
\* HEADER_SIZE bytes or more that does not start with 'BUCK', and returns a
\* header on every other buffer.
C16_DecodeErrors ==
  [][\A p \in Procs :
       (did[p] # "decode" /\ did'[p] = "decode") =>
         LET b == buf[p].bytes
         IN res'[p].code =
              IF Len(b) < HEADER_SIZE THEN "E_BAD_HEADER_SIZE"
              ELSE IF SubSeq(b, 1, 4) # <<66, 85, 67, 75>> THEN "E_BAD_HEADER_FMT"
              ELSE "ok"]_vars

C16_Witness ==
  \E p, q \in Procs :
    /\ did[p] = "decode" /\ res[p].code = "E_BAD_HEADER_SIZE"
    /\ Len(buf[p].bytes) = HEADER_SIZE - 1 /\ buf[p].bytes[1] # 66
    /\ did[q] = "decode" /\ res[q].code = "E_BAD_HEADER_FMT"
    /\ Len(buf[q].bytes) = HEADER_SIZE

\* C13: a setStream that resolves has published the file set writes for
\* the same end of life and the concatenation of the chunks, the header
\* first and the chunks in order behind it; and a get whose read came after
\* it, with no writer on the key since, resolves with those bytes as long as
\* the clock has not passed the end of life.
C13_WriteTransports ==
  [][\A p \in Procs :
       /\ (call[p].op = "setStream" /\ pc[p] = "pipe" /\ pc'[p] = "idle"
           /\ res'[p].code = "ok")
          => fs'[PathOf(p)] = File(encodeHeader(call[p].eol) \o call[p].data)
       /\ (call[p].op = "get" /\ pc[p] = "readFile" /\ pc'[p] = "idle"
           /\ expect[p].some /\ clock <= expect[p].eol)
          => res'[p] = Resolved(expect[p].data)]_vars

C13_Witness ==
  \E p, q \in Procs :
    /\ pc[p] = "idle" /\ did[p] = "get" /\ expect[p].some
    /\ expect[p].eol >= clock /\ res[p] = Resolved(<<3, 7>>)
    /\ pc[q] = "idle" /\ did[q] = "setStream" /\ res[q].code = "ok"
    /\ fs[keyToPath(KeyAB)] = File(encodeHeader(expect[p].eol) \o <<3, 7>>)

\* C19: a set whose write of the temp file fails, at the open or at the
\* write, rejects with E_ACCESS straight from there, with no unlink and no
\* rename: the file at the bucket path and the record of who published it
\* are as they were.
C19_TempWriteFailure ==
  [][\A p \in Procs :
       (call[p].op = "set" /\ pc[p] \in {"writeFile", "write"} /\ pc'[p] = "idle")
       => /\ res'[p] = Rejected("E_ACCESS", 0)
          /\ fs'[PathOf(p)] = fs[PathOf(p)]
          /\ lastRename'[PathOf(p)] = lastRename[PathOf(p)]]_vars

C19_Witness ==
  \E p \in Procs :
    /\ pc[p] = "idle" /\ did[p] = "set" /\ res[p] = Rejected("E_ACCESS", 0)
    /\ fs[TmpOf(keyToPath(KeyAB))].ex
    /\ fs[keyToPath(KeyAB)].ex
    /\ fs[keyToPath(KeyAB)].bytes = Bucket(lastRename[keyToPath(KeyAB)])

\* C20: when a setEOL with a past end of life has unlinked an existing
\* bucket, no file is at the bucket path; as long as no rename has published
\* the key again no file is there, and every get and getStream that reads
\* then rejects with E_NOENT.
C20_DeleteThenNoEnt ==
  [][\A p \in Procs :
       /\ (call[p].op = "setEOL" /\ pc[p] = "unlinkEOL" /\ res'[p].code = "ok")
          => (fs[PathOf(p)].ex /\ ~fs'[PathOf(p)].ex /\ ~lastRename'[PathOf(p)].some)
       /\ \A path \in BucketPaths : ~lastRename[path].some => ~fs[path].ex
       /\ (pc[p] = "idle" /\ pc'[p] \in {"readFile", "window"}
           /\ ~lastRename[keyToPath(call'[p].key)].some)
          => buf'[p].err # ""
       /\ (call[p].op = "get" /\ pc[p] = "readFile" /\ buf[p].err # "")
          => res'[p].code \in {"pending", "E_NOENT"}
       /\ (call[p].op = "getStream" /\ pc[p] = "window" /\ buf[p].err # "")
          => res'[p].code \in {"pending", "E_NOENT"}]_vars

C20_Witness ==
  \E p, q \in Procs :
    /\ pc[p] = "idle" /\ did[p] = "get" /\ res[p] = Rejected("E_NOENT", 0)
    /\ pc[q] = "idle" /\ did[q] = "setEOL" /\ res[q].code = "ok"
    /\ events[q] = <<"take">>
    /\ ~fs[keyToPath(KeyAB)].ex /\ ~lastRename[keyToPath(KeyAB)].some

\* C21: the step in which a setEOL call of a past end of life returns from
\* its fs.unlink, whether the unlink worked or failed, ends a call that
\* called lock.take once and then lock.release once, and leaves the lock of
\* its key free.
C21_DeleteReleases ==
  [][\A p \in Procs :
       (call[p].op = "setEOL" /\ pc[p] = "unlinkEOL" /\ pc'[p] = "idle")
       => /\ events'[p] = <<"take", "release">>
          /\ ~held'[call[p].key]]_vars

\* C22: a setEOL call of an end of life to come that stands at the open,
\* the write or the close of the bucket file has called lock.take, was
\* granted the key and has not released it.
C22_ExtendUnderLock ==
  \A p \in Procs :
    (call[p].op = "setEOL" /\ pc[p] \in {"open", "writeEOL", "close"})
    => /\ events[p] = <<"take">>
       /\ held[call[p].key]

\* C30: a setEOL call whose fs.write reported a byte count n other than
\* HEADER_SIZE settles as rejected with E_BAD_WRITE(n), whichever of its
\* fs.close callbacks comes first.
C30_BadWrite ==
  [][\A p \in Procs :
       (/\ call[p].op = "setEOL" /\ pc[p] = "close" /\ pc'[p] = "idle"
        /\ res[p].n # HEADER_SIZE)
       => res'[p] = Rejected("E_BAD_WRITE", res[p].n)]_vars

\* C27: a set or setStream call whose fs.rename of the temp file to the
\* bucket path fails rejects with E_ACCESS.
C27_RenameFailure ==
  [][\A p \in Procs :
       (/\ \/ call[p].op = "set" /\ pc[p] = "rename"
           \/ call[p].op = "setStream" /\ pc[p] = "pipe" /\ src[p] = << >>
        /\ pc'[p] = "idle" /\ res'[p].code # "ok")
       => res'[p].code = "E_ACCESS"]_vars

\* C28: a set or setStream call that comes to open its temp file while a
\* file is at dest + '.tmp' leaves that file as it is and rejects with
\* E_ACCESS.
C28_ExclusiveCreate ==
  [][\A p \in Procs :
       (/\ pc[p] \in {"writeFile", "createWriteStream"} /\ pc'[p] # pc[p]
        /\ fs[TmpOf(PathOf(p))].ex)
       => /\ fs'[TmpOf(PathOf(p))] = fs[TmpOf(PathOf(p))]
          /\ res'[p].code = "E_ACCESS"]_vars

\* C29: while no set or setStream call is in flight on a key, no file is at
\* the temp path of the key, however the earlier calls ended.
C29_TempHygiene ==
  \A path \in BucketPaths :
    (~\E p \in Procs : /\ pc[p] # "idle" /\ call[p].op \in {"set", "setStream"}
                       /\ PathOf(p) = path)
    => ~fs[TmpOf(path)].ex

\* C26: when a set call comes to its fs.rename the bucket path is empty,
\* whether a bucket was there before or not, and its temp file is there; the
\* rename fails for nothing but a fault of the file system, and when it
\* works the bucket is the header and the data of this call, which a get
\* reading then resolves with at every clock value up to the end of life.
C26_Overwrite ==
  [][\A p \in Procs :
       (call[p].op = "set" /\ pc[p] = "rename")
       => /\ ~fs[PathOf(p)].ex
          /\ fs[TmpOf(PathOf(p))].ex
          /\ (pc'[p] = "idle" /\ res'[p].code # "ok") => res'[p].code = "EIO"
          /\ (pc'[p] = "idle" /\ res'[p].code = "ok")
             => /\ fs'[PathOf(p)] = File(Bucket(call[p]))
                /\ \A t \in clock..call[p].eol :
                     GetResult([err |-> "", bytes |-> fs'[PathOf(p)].bytes], t)
                       = Resolved(call[p].data)]_vars

C26_Witness ==
  \E p, q \in Procs :
    /\ call[q].op = "set" /\ pc[q] = "rename"
    /\ call[q].old = Wrote(<<3, 7>>, MaxEol) /\ call[q].data = << >>
    /\ ~fs[PathOf(q)].ex
    /\ pc[p] = "idle" /\ did[p] = "get" /\ res[p] = Resolved(<<3, 7>>)

\* C25: the path _keyToPath returns for a key is '__', then the characters
\* of the key that are legal in a file name, in their order, then
\* '.bucket'; it holds no path separator, so it names a file of the cache
\* directory itself; two calls with one key return one path; and
\* '/plop/wadup/?kikoo=lol' gives '__plopwadupkikoo=lol.bucket'.
C25_KeyToPath ==
  \A p \in Procs :
    did[p] = "keyToPath" =>
      /\ buf[p].bytes = <<"__">> \o SelectSeq(call[p].key, LAMBDA c : c \notin Illegal)
                                 \o <<".bucket">>
      /\ \A i \in 1..Len(buf[p].bytes) : buf[p].bytes[i] \notin {"/", "\\"}
      /\ \A q \in Procs :
           (did[q] = "keyToPath" /\ call[q].key = call[p].key)
           => buf[q].bytes = buf[p].bytes
      /\ call[p].key = TestKey
         => buf[p].bytes = <<"__", "p", "l", "o", "p", "w", "a", "d", "u", "p",
                             "k", "i", "k", "o", "o", "=", "l", "o", "l",
                             ".bucket">>

C25_Witness ==
  \E p, q \in Procs :
    /\ did[p] = "keyToPath" /\ call[p].key = TestKey
    /\ Len(buf[p].bytes) = 20
    /\ did[q] = "keyToPath" /\ call[q].key = <<"a", "/", "a">>
    /\ buf[q].bytes = <<"__", "a", "a", ".bucket">>

\* C24: a step of a set, setStream or setEOL call on a key, whether the call
\* goes on, succeeds or fails, leaves as they were the bucket file and the
\* temp file of every key of another path, the lock of that key and the
\* open files of its callers; so a get of that key settles after the step
\* as it would have before, at every clock value.
C24_KeyIndependence ==
  [][\A p \in Procs : \A k2 \in AllKeys :
       LET k1 == IF call[p].op \in Writers THEN call[p].key ELSE call'[p].key
       IN (/\ call[p].op \in Writers \/ call'[p].op \in Writers
           /\ <<pc'[p], call'[p], src'[p], res'[p]>> # <<pc[p], call[p], src[p], res[p]>>
           /\ keyToPath(k2) # keyToPath(k1))
          => /\ fs'[keyToPath(k2)] = fs[keyToPath(k2)]
             /\ fs'[TmpOf(keyToPath(k2))] = fs[TmpOf(keyToPath(k2))]
             /\ held'[k2] = held[k2] /\ waitQ'[k2] = waitQ[k2]
             /\ \A q \in Procs : call[q].key = k2 => fd'[q] = fd[q]
             /\ \A t \in 0..MaxTime :
                  GetResult(ReadFile(fs'[keyToPath(k2)]), t)
                    = GetResult(ReadFile(fs[keyToPath(k2)]), t)]_vars

C24_Witness ==
  \E p, q \in Procs :
    /\ call[p].op = "get" /\ call[p].key = KeyC /\ pc[p] = "readFile"
    /\ buf[p] = [err |-> "", bytes |-> Bucket(Wrote(<<3, 7>>, MaxEol))]
    /\ call[q].op = "set" /\ call[q].key = KeyAB /\ pc[q] = "rename"
    /\ call[q].old.some

Unsettled == {"none", "pending"}

\* C31: within one getStream call a promise that has settled keeps its
\* settlement; a call whose file begins with bytes that do not decode as a
\* header, or with the header of an end of life below the clock, does not
\* resolve; and a call that rejected has no stream that delivers: no byte
\* comes to the caller, then or later.
C31_StreamSettlesOnce ==
  [][\A p \in Procs :
       /\ (/\ did[p] = "getStream" /\ res[p].code \notin Unsettled
           /\ ~(pc[p] = "idle" /\ pc'[p] # "idle"))
          => /\ res'[p].code = res[p].code /\ res'[p].n = res[p].n
             /\ res[p].code # "ok" => res'[p].data = << >>
       /\ (call[p].op = "getStream" /\ pc[p] = "window" /\ buf[p].err = "")
          => LET window == Take(buf[p].bytes \o Concat(src[p]), HEADER_SIZE)
             IN (\/ decodeHeader(window).code # "ok"
                 \/ decodeHeader(window).eol < clock)
                => /\ res'[p].code # "ok"
                   /\ pc'[p] \in {"window", "idle"}
       /\ (call[p].op = "getStream" /\ pc[p] \in {"flush", "flow", "stalled"})
          => res[p].code = "ok"
       /\ (did[p] = "getStream" /\ res[p].code \notin Unsettled \cup {"ok"})
          => res[p].data = << >> /\ pc[p] = "idle"]_vars

C31_Witness ==
  \E p, q \in Procs :
    /\ pc[p] = "idle" /\ did[p] = "getStream"
    /\ res[p] = Rejected("E_END_OF_LIFE", 1) /\ clock = MaxTime
    /\ fs[keyToPath(KeyAB)] = File(encodeHeader(1) \o <<3, 7>>)
    /\ pc[q] = "flow" /\ call[q].op = "getStream" /\ res[q] = Resolved(<<3>>)

\* how many times x is in a log
Count(log, x) == Len(SelectSeq(log, LAMBDA e : e = x))

\* C32: at every point a call has called lock.release no more often than
\* it has called lock.take: it releases only a lock it asked for and got.
C32_ReleaseMatchesTake ==
  \A p \in Procs : Count(events[p], "release") <= Count(events[p], "take")

\* C37: when a set call that found a bucket at its key rejects, at the temp
\* write or at the rename, that bucket is at the bucket path as it was,
\* header and payload.
C37_FailedSetKeepsBucket ==
  [][\A p \in Procs :
       (/\ call[p].op = "set" /\ pc[p] \in SetWritePcs /\ pc'[p] = "idle"
        /\ res'[p].code # "ok" /\ call[p].old.some)
       => fs'[PathOf(p)] = File(Bucket(call[p].old))]_vars

\* C40: a setEOL call that waits for the close of the descriptor it opened
\* has called fs.close on it once, and a setEOL call that is over holds no
\* open descriptor.
C40_CloseOnce ==
  \A p \in Procs :
    /\ (call[p].op = "setEOL" /\ pc[p] = "close") => CloseCalls(p) = 1
    /\ (did[p] = "setEOL" /\ pc[p] = "idle") => fd[p] = "none"

HeaderUniform(n) ==
  \A p \in Procs :
    /\ (call[p].op = "set" /\ pc[p] = "write" /\ pc'[p] = "unlink"
        /\ fd[p] = "tmp")
       => Len(fs'[TmpOf(PathOf(p))].bytes) = n + Len(call[p].data)
    /\ (call[p].op = "get" /\ pc[p] = "readFile" /\ pc'[p] = "idle"
        /\ buf[p].err = "")
       => /\ (res'[p].code = "E_BAD_HEADER_SIZE") <=> (Len(buf[p].bytes) < n)
          /\ res'[p].code = "ok" => res'[p].data = Slice(buf[p].bytes, n)
    /\ (call[p].op = "getStream" /\ pc[p] = "window" /\ pc'[p] = "flush")
       => Len(buf[p].bytes) + Len(Head(src[p])) - Len(buf'[p].bytes) = n
    /\ (call[p].op = "setEOL" /\ pc[p] = "writeEOL" /\ pc'[p] = "close")
       => (res'[p].n = n) <=> (CloseCalls(p)' = 1)

C33_ReadsIgnoreLock ==
  /\ [][\A p \in Procs :
          (/\ call[p].op \in {"get", "getStream"} \/ call'[p].op \in {"get", "getStream"}
           /\ <<pc'[p], call'[p], res'[p], src'[p], buf'[p]>>
                # <<pc[p], call[p], res[p], src[p], buf[p]>>)
          => /\ UNCHANGED <<held, waitQ>>
             /\ events'[p] = << >>]_vars
  /\ \A p \in Procs :
       (call[p].op \in {"get", "getStream"} /\ res[p].code = "pending")
         ~> (res[p].code # "pending")

C33_Witness ==
  \E p, q \in Procs :
    /\ call[p].op = "getStream" /\ pc[p] = "window" /\ events[p] = << >>
    /\ call[q].op = "set" /\ pc[q] = "rename" /\ held[KeyAB]
    /\ waitQ[KeyAB] = << >>

\* C36: every set, setStream or setEOL call that waits for the lock of its
\* key is granted it and returns.
C36_NoDeadlock ==
  \A p \in Procs : (pc[p] = "take") ~> (pc[p] = "idle")

(***************************************************************************)
(* The end of life argument of setEOL, given or omitted, in the promise    *)
(* service and in the callback-style FileCache.                            *)
(***************************************************************************)
\* the configured time to live: it passes every end of life a caller gives
FS_CACHE_TTL == MaxEol

Omitted  == [def |-> FALSE, eol |-> 0]
Given(e) == [def |-> TRUE, eol |-> e]

\* a mutant of the default: an omitted end of life is 0
SetEOLDefaultZero(arg, now) == IF arg.def THEN arg.eol ELSE 0

\* async function setEOL(key, eol = time() + FS_CACHE_TTL)
SetEOLDefault(arg, now) == IF arg.def THEN arg.eol ELSE now + FS_CACHE_TTL

\* setEOL(key) and setEOL(key, eol) of the promise service
SetEOLArg(p, k, arg) == SetEOLCall(p, k, SetEOLDefault(arg, clock))

\* eol = eol || 0: an omitted end of life is 0, and 0 stays 0
fileCacheEolOrZero(arg) == IF arg.def /\ arg.eol # 0 THEN arg.eol ELSE 0

\* cb(err) or cb(null): the result is added to the results the callback of
\* the call was called with; the caller keeps the first
Cb(p, r) ==
  /\ events' = [events EXCEPT ![p] = Append(@, r.code)]
  /\ res' = [res EXCEPT ![p] = IF @.code = "pending" THEN r ELSE @]

\* no callback of the file system is left to come for the call
fileCacheDone(p) ==
  /\ call' = [call EXCEPT ![p] = NoCall]
  /\ pc' = [pc EXCEPT ![p] = "idle"]

\* the synchronous start of FileCache.prototype.setEOL: a past end of life
\* calls fs.unlink, any other fs.open; there is no lock
fileCacheSetEOL(p, k, arg) ==
  /\ pc[p] = "idle"
  /\ expect' = [expect EXCEPT ![p] = NoExpect]
  /\ call' = [call EXCEPT ![p] =
                Call("fileCacheSetEOL", k, << >>, fileCacheEolOrZero(arg))]
  /\ res' = [res EXCEPT ![p] = Pending]
  /\ did' = [did EXCEPT ![p] = "fileCacheSetEOL"]
  /\ quiet' = [quiet EXCEPT ![keyToPath(k)] = FALSE]
  /\ events' = [events EXCEPT ![p] = << >>]
  /\ pc' = [pc EXCEPT ![p] = IF fileCacheEolOrZero(arg) < clock
                              THEN "cbUnlink" ELSE "cbOpen"]
  /\ UNCHANGED <<clock, fs, held, waitQ, fd, buf, src, lastRename>>

\* the callback of fs.unlink: cb(err) or cb(null)
fileCacheSetEOLUnlink(p) ==
  /\ pc[p] = "cbUnlink"
  /\ \E fault \in BOOLEAN :
       IF fault \/ ~fs[PathOf(p)].ex
       THEN /\ Cb(p, Rejected(IF fault THEN "EIO" ELSE "ENOENT", 0))
            /\ UNCHANGED <<fs, fd, lastRename>>
       ELSE /\ fs' = [fs EXCEPT ![PathOf(p)] = Absent]
            /\ fd' = FdAfterUnlink(PathOf(p))
            /\ lastRename' = [lastRename EXCEPT ![PathOf(p)] = NoExpect]
            /\ Cb(p, Resolved(<< >>))
  /\ fileCacheDone(p)
  /\ UNCHANGED <<clock, did, held, waitQ, buf, src, expect, quiet>>

\* the callback of fs.open(path, 'r+'): cb(err); else fs.write of the new
\* header is called and then, before its callback has run, cb(null)
fileCacheSetEOLOpen(p) ==
  /\ pc[p] = "cbOpen"
  /\ \E fault \in BOOLEAN :
       IF fault \/ ~fs[PathOf(p)].ex
       THEN /\ Cb(p, Rejected(IF fault THEN "EIO" ELSE "ENOENT", 0))
            /\ fileCacheDone(p)
            /\ UNCHANGED fd
       ELSE /\ fd' = [fd EXCEPT ![p] = "dest"]
            /\ pc' = [pc EXCEPT ![p] = "cbWrite"]
            /\ Cb(p, Resolved(<< >>))
            /\ UNCHANGED call
  /\ UNCHANGED <<clock, did, fs, held, waitQ, buf, src, expect, lastRename,
                 quiet>>

\* the callback of fs.write(fd, header, 0, HEADER_SIZE, 0): an error closes
\* and calls cb(err2); a short write calls cb(E_BAD_WRITE) and closes; else
\* fs.close(fd, cb)
fileCacheSetEOLWrite(p) ==
  /\ pc[p] = "cbWrite"
  /\ \/ /\ Cb(p, Rejected("EIO", 0))
        /\ fd' = [fd EXCEPT ![p] = "none"]
        /\ fileCacheDone(p)
        /\ UNCHANGED fs
     \/ \E numBytesWritten \in WriteCounts :
          /\ fs' = WriteFd(p, 0, Take(encodeHeader(call[p].eol), numBytesWritten))
          /\ IF numBytesWritten # HEADER_SIZE
             THEN /\ Cb(p, Rejected("E_BAD_WRITE", numBytesWritten))
                  /\ fd' = [fd EXCEPT ![p] = "none"]
                  /\ fileCacheDone(p)
             ELSE /\ pc' = [pc EXCEPT ![p] = "cbClose"]
                  /\ UNCHANGED <<fd, call, res, events>>
  /\ UNCHANGED <<clock, did, held, waitQ, buf, src, expect, lastRename, quiet>>

\* the callback of fs.close(fd, cb) is cb itself
fileCacheSetEOLClose(p) ==
  /\ pc[p] = "cbClose"
  /\ fd' = [fd EXCEPT ![p] = "none"]
  /\ \E r \in {Resolved(<< >>), Rejected("EBADF", 0)} : Cb(p, r)
  /\ fileCacheDone(p)
  /\ UNCHANGED <<clock, did, fs, held, waitQ, buf, src, expect, lastRename,
                 quiet>>

(***************************************************************************)
(* setEOL of the promise service and of the callback-style FileCache on    *)
(* one key, over any file at the path of the bucket, with the end of life  *)
(* omitted, past (0) or to come (MaxEol); the clock stands still.          *)
(***************************************************************************)
EolArgs == {Omitted, Given(0), Given(MaxEol)}

NextSetEOL ==
  \E p \in Procs :
    \/ \E arg \in EolArgs : SetEOLArg(p, KeyAB, arg)
    \/ SetEOLGranted(p)
    \/ SetEOLUnlink(p)
    \/ SetEOLOpen(p)
    \/ SetEOLWrite(p)
    \/ SetEOLClose(p)
    \/ \E arg \in EolArgs : fileCacheSetEOL(p, KeyAB, arg)
    \/ fileCacheSetEOLUnlink(p)
    \/ fileCacheSetEOLOpen(p)
    \/ fileCacheSetEOLWrite(p)
    \/ fileCacheSetEOLClose(p)

SpecSetEOL == InitRead /\ [][NextSetEOL]_vars

\* C34 (as the code has it): setEOL(key) of the promise service, called with
\* eol omitted, takes the extend path: eol is time() + FS_CACHE_TTL, which is
\* not below time(), the call goes to fs.open without the lock, and no step
\* of the call removes or creates the file of the bucket.  Only
\* setEOL(key) of the callback-style FileCache takes the delete path: eol is
\* 0 and the call goes to fs.unlink, whose success leaves no file.
C34_OmittedExtends ==
  [][\A p \in Procs :
       /\ SetEOLArg(p, KeyAB, Omitted)
            => /\ call'[p].eol = clock + FS_CACHE_TTL /\ ~(call'[p].eol < clock)
               /\ pc'[p] = "open" /\ events'[p] = << >> /\ fs' = fs
       /\ (call[p].eol = clock + FS_CACHE_TTL /\ pc'[p] # pc[p]
           /\ pc[p] \in {"open", "writeEOL", "close"})
            => /\ pc'[p] \in {"writeEOL", "close", "idle"}
               /\ fs'[keyToPath(KeyAB)].ex = fs[keyToPath(KeyAB)].ex
       /\ fileCacheSetEOL(p, KeyAB, Omitted)
            => call'[p].eol = 0 /\ pc'[p] = "cbUnlink"
       /\ (pc[p] = "cbUnlink" /\ pc'[p] = "idle" /\ events'[p] = <<"ok">>)
            => ~fs'[keyToPath(KeyAB)].ex]_vars

\* C34 (as stated): setEOL(key) called with eol omitted takes the delete
\* path: eol is 0, below now, and the call goes to the unlink of the bucket.
C34_OmittedDeletes ==
  [][\A p \in Procs :
       (SetEOLArg(p, KeyAB, Omitted) \/ fileCacheSetEOL(p, KeyAB, Omitted))
         => /\ call'[p].eol = 0 /\ call'[p].eol < clock
            /\ pc'[p] \in {"take", "cbUnlink"}]_vars

C34_Witness ==
  \E p \in Procs :
    /\ call[p].op = "setEOL" /\ call[p].eol = clock + FS_CACHE_TTL
    /\ pc[p] = "close" /\ res[p].n = HEADER_SIZE
    /\ fs[keyToPath(KeyAB)].ex
    /\ decodeHeader(fs[keyToPath(KeyAB)].bytes) = Ok(clock + FS_CACHE_TTL)
    /\ \A q \in Procs \ {p} : pc[q] = "idle"

\* C39: in the callback-style FileCache the callback of a setEOL call is
\* called at most once while the call is at work and exactly once when it is
\* done, and it is called with success only when no write or close of the
\* call is left to complete.
C39_CallbackOnce ==
  \A p \in Procs :
    /\ call[p].op = "fileCacheSetEOL"
         => /\ Len(events[p]) <= 1
            /\ events[p] # <<"ok">>
    /\ (did[p] = "fileCacheSetEOL" /\ pc[p] = "idle") => Len(events[p]) = 1

=============================================================================
